---- MODULE Spec2Model ----
(***************************************************************************)
(* Request-construction engine of the Pica MCP server.                     *)
(*                                                                         *)
(* Strings that the code scans character by character (path templates,    *)
(* path-variable names and values, URLs) are sequences of one-character    *)
(* strings.  Strings the code only copies or compares as a whole (header   *)
(* names and values, connection keys, action ids, methods) are TLA+        *)
(* strings.  JavaScript values are tagged records.                         *)
(*                                                                         *)
(* Four specifications share the variables:                                *)
(*   Spec            one operation served on an initialised server         *)
(*   SpecLifecycle   the start of a server and the requests that reach it  *)
(*   SpecDispatches  generate and execute calls that overlap               *)
(*   SpecSse         the transports map of the SSE server                  *)
(***************************************************************************)
EXTENDS Integers, Sequences, FiniteSets, TLC

VARIABLES
    connections,   \* PicaClient.connections: the cached connection list
    call,          \* the operation being served, with its arguments
    reply,         \* what the operation returned (envelope or function result)
    wire,          \* requests handed to axios for the passthrough endpoint
    pc             \* "idle" before an operation, "done" after it

\* the start of a server and the requests that reach it while it starts
VARIABLES
    variant,                \* which server: "route", "index", "stdio" or "sse"
    picaInitialized,        \* the flag of the same name
    initializationPromise,  \* 0 for null, else the run of initialize() it wraps
    connectionDefinitions,  \* PicaClient.connectionDefinitions
    runs,                   \* the calls of picaClient.initialize(), in order
    requests,               \* the tool requests and how far each has got
    fetched                 \* the answers to GET /v1/vault/connections, from
                            \* the latest one that succeeded on

\* tool calls that run at the same time
VARIABLES
    dispatches              \* per dispatch: its arguments and how far it has got

\* the SSE server
VARIABLES
    transports,             \* the keys of the transports map
    sockets,                \* per session id: "none", "open" or "closed"
    posted                  \* the last POST /messages and its answer

engineVars == <<call, reply, wire, pc>>

lifecycleVars ==
    <<variant, picaInitialized, initializationPromise, connectionDefinitions, runs,
      requests, fetched>>

sseVars == <<transports, sockets, posted>>

vars == <<connections, engineVars, lifecycleVars, dispatches, sseVars>>

---------------------------------------------------------------------------
(* Bounds of the model *)

\* longest path template of the resolver check, in segments
MaxSegs == 3

\* longest action.path / path argument of a tool call, in segments
MaxPathSegs == 2

\* tool requests that reach a server while it starts
MaxRequests == 2

\* tool calls in flight at the same time
MaxDispatches == 2

\* SSE connections opened in the life of the SSE server
MaxSessions == 3

---------------------------------------------------------------------------
(* JavaScript values *)

Undefined == [t |-> "undefined"]

Null == [t |-> "null"]

Str(s) == [t |-> "string", s |-> s]

Num(n) == [t |-> "number", n |-> n]

Bool(b) == [t |-> "boolean", b |-> b]

\* a plain object: a function from property names (character sequences) to values
Obj(f) == [t |-> "object", o |-> f]

Arr(a) == [t |-> "array", a |-> a]

\* !!v
Truthy(v) ==
    CASE v.t = "undefined" -> FALSE
      [] v.t = "null" -> FALSE
      [] v.t = "string" -> v.s # <<>>
      [] v.t = "number" -> v.n # 0
      [] v.t = "boolean" -> v.b
      [] OTHER -> TRUE

\* o[k] on a plain object: undefined when o has no own property k
Get(o, k) == IF o.t = "object" /\ k \in DOMAIN o.o THEN o.o[k] ELSE Undefined

\* Array.isArray(v)
IsArray(v) == v.t = "array"

Digit(d) ==
    CASE d = 0 -> "0" [] d = 1 -> "1" [] d = 2 -> "2" [] d = 3 -> "3" [] d = 4 -> "4"
      [] d = 5 -> "5" [] d = 6 -> "6" [] d = 7 -> "7" [] d = 8 -> "8" [] d = 9 -> "9"

RECURSIVE NatToString(_)
NatToString(n) == IF n < 10 THEN <<Digit(n)>> ELSE NatToString(n \div 10) \o <<Digit(n % 10)>>

\* value.toString() / String(value) of a string, number or boolean
toString(v) ==
    CASE v.t = "string" -> v.s
      [] v.t = "number" -> NatToString(v.n)
      [] v.t = "boolean" -> IF v.b THEN <<"t", "r", "u", "e">> ELSE <<"f", "a", "l", "s", "e">>

\* encodeURIComponent on one character: letters, digits and - _ . ! ~ * ' ( )
\* pass, everything else becomes %XX
EncodeChar(c) ==
    CASE c = "{" -> <<"%", "7", "B">>
      [] c = "}" -> <<"%", "7", "D">>
      [] c = "/" -> <<"%", "2", "F">>
      [] c = " " -> <<"%", "2", "0">>
      [] c = "%" -> <<"%", "2", "5">>
      [] OTHER -> <<c>>

RECURSIVE encodeURIComponent(_)
encodeURIComponent(s) ==
    IF s = <<>> THEN <<>> ELSE EncodeChar(Head(s)) \o encodeURIComponent(Tail(s))

\* String.prototype.trim, for the blank of the model's alphabet
RECURSIVE TrimLeft(_)
TrimLeft(s) == IF s # <<>> /\ Head(s) = " " THEN TrimLeft(Tail(s)) ELSE s

RECURSIVE TrimRight(_)
TrimRight(s) ==
    IF s # <<>> /\ s[Len(s)] = " " THEN TrimRight(SubSeq(s, 1, Len(s) - 1)) ELSE s

Trim(s) == TrimRight(TrimLeft(s))

\* does s have "{{" somewhere
HasOpen(s) == \E i \in 1..(Len(s) - 1) : s[i] = "{" /\ s[i + 1] = "{"

---------------------------------------------------------------------------
(* The placeholder pattern /\{\{([^}]+)\}\}/g *)

\* index of the first "}" of s at or after i, Len(s) + 1 when there is none
RECURSIVE FirstClose(_, _)
FirstClose(s, i) == IF i > Len(s) \/ s[i] = "}" THEN i ELSE FirstClose(s, i + 1)

\* the pattern matches at i: "{{", one or more characters other than "}", "}}"
MatchAt(s, i) ==
    /\ i + 1 <= Len(s)
    /\ s[i] = "{"
    /\ s[i + 1] = "{"
    /\ LET j == FirstClose(s, i + 2)
       IN  j > i + 2 /\ j + 1 <= Len(s) /\ s[j + 1] = "}"

\* the captured group and the index after the match, for a match at i
Captured(s, i) == SubSeq(s, i + 2, FirstClose(s, i + 2) - 1)

MatchEnd(s, i) == FirstClose(s, i + 2) + 2

\* path.match(/\{\{([^}]+)\}\}/g): the matched texts left to right (<<>> stands
\* for the null of no match)
RECURSIVE MatchesFrom(_, _)
MatchesFrom(s, i) ==
    IF i > Len(s) THEN <<>>
    ELSE IF MatchAt(s, i)
         THEN <<SubSeq(s, i, MatchEnd(s, i) - 1)>> \o MatchesFrom(s, MatchEnd(s, i))
         ELSE MatchesFrom(s, i + 1)

MatchAll(s) == MatchesFrom(s, 1)

---------------------------------------------------------------------------
(* PicaClient.replacePathVariables *)

Returned(s) == [ok |-> TRUE, s |-> s]

\* throw new Error(`Missing value for path variable: ${name}`)
MissingPathVariable(name) ==
    [ok |-> FALSE, error |-> [kind |-> "MissingPathVariable", name |-> name]]

\* Replacer with a slip: a placeholder without a value is dropped silently
Replacer_dropsMissing(variable, variables) ==
    LET value == Get(variables, Trim(variable))
    IN  IF value = Undefined \/ value = Null \/ value = Str(<<>>)
        THEN Returned(<<>>)
        ELSE Returned(encodeURIComponent(toString(value)))

\* the replacer callback of the HTTP route and of the current stdio server:
\* the name is trimmed, undefined / null / '' are missing, the value is
\* percent-encoded
Replacer(variable, variables) ==
    LET trimmedVariable == Trim(variable)
        value == Get(variables, trimmedVariable)
    IN  IF value = Undefined \/ value = Null \/ value = Str(<<>>)
        THEN MissingPathVariable(trimmedVariable)
        ELSE Returned(encodeURIComponent(toString(value)))

\* the replacer callback of src/index.ts: the name is looked up as written,
\* every falsy value is missing, the value is inserted as it is
Replacer_index(variable, variables) ==
    LET value == Get(variables, variable)
    IN  IF ~Truthy(value)
        THEN MissingPathVariable(variable)
        ELSE Returned(toString(value))

\* String.prototype.replace with the global pattern and a replacer callback:
\* left to right, never rescanning inserted text; the first throw of the
\* callback ends the whole call
RECURSIVE ReplaceFrom(_, _, _, _)
ReplaceFrom(s, i, variables, impl) ==
    IF i > Len(s) THEN Returned(<<>>)
    ELSE IF MatchAt(s, i)
         THEN LET r == IF impl = "index"
                       THEN Replacer_index(Captured(s, i), variables)
                       ELSE Replacer(Captured(s, i), variables)
              IN  IF ~r.ok THEN r
                  ELSE LET rest == ReplaceFrom(s, MatchEnd(s, i), variables, impl)
                       IN  IF rest.ok THEN Returned(r.s \o rest.s) ELSE rest
         ELSE LET rest == ReplaceFrom(s, i + 1, variables, impl)
              IN  IF rest.ok THEN Returned(<<s[i]>> \o rest.s) ELSE rest

\* route.ts: `if (!path) return path;` then the replace
replacePathVariables(path, variables) ==
    IF path = <<>> THEN Returned(path) ELSE ReplaceFrom(path, 1, variables, "route")

\* src/index.ts: the replace alone
replacePathVariables_index(path, variables) == ReplaceFrom(path, 1, variables, "index")

---------------------------------------------------------------------------
(* Objects as property maps *)

\* { ...a, ...b }: the properties of b win
Merge(a, b) == [k \in DOMAIN a \cup DOMAIN b |-> IF k \in DOMAIN b THEN b[k] ELSE a[k]]

\* f[k], undefined when f has no property k
Prop(f, k) == IF k \in DOMAIN f THEN f[k] ELSE Undefined

\* delete f[k]
Delete(f, k) == [j \in DOMAIN f \ {k} |-> f[j]]

\* f[k] = v
Assign(f, k, v) == [j \in DOMAIN f \cup {k} |-> IF j = k THEN v ELSE f[j]]

\* the own enumerable properties an object spread { ...v } copies: those of a
\* plain object, the indexed characters of a string, none of any other value
SpreadOf(v) ==
    CASE v.t = "object" -> v.o
      [] v.t = "string" -> [k \in {NatToString(i - 1) : i \in 1..Len(v.s)} |->
                               Str(<<v.s[(CHOOSE i \in 1..Len(v.s) : NatToString(i - 1) = k)]>>)]
      [] v.t = "array" -> [k \in {NatToString(i - 1) : i \in 1..Len(v.a)} |->
                               v.a[(CHOOSE i \in 1..Len(v.a) : NatToString(i - 1) = k)]]
      [] OTHER -> <<>>

\* typeof v === 'object'
TypeofObject(v) == v.t \in {"object", "array", "null"}

---------------------------------------------------------------------------
(* PicaClient: headers, url, body *)

PICA_SECRET == "sk_live_secret"

baseUrl == "https://api.picaos.com"

generateHeaders ==
    [k \in {"Content-Type", "x-pica-secret"} |->
        IF k = "Content-Type" THEN "application/json" ELSE PICA_SECRET]

\* NewHeaders with a slip: the routing headers are spread before the base
\* headers only when the caller sends no headers of their own
NewHeaders_callerReplaces(actionId, connectionKey, headers, isFormData, isFormUrlEncoded) ==
    IF headers = <<>>
    THEN Merge(generateHeaders,
               [k \in {"x-pica-connection-key", "x-pica-action-id"} |->
                   IF k = "x-pica-connection-key" THEN connectionKey ELSE actionId])
    ELSE Merge(generateHeaders, headers)

\* the newHeaders literal of executeAction and generateRequestConfig; headers
\* is the caller's map, empty when the argument is undefined
NewHeaders(actionId, connectionKey, headers, isFormData, isFormUrlEncoded) ==
    LET routed == Merge(generateHeaders,
                        [k \in {"x-pica-connection-key", "x-pica-action-id"} |->
                            IF k = "x-pica-connection-key" THEN connectionKey ELSE actionId])
        multipart == IF isFormData
                     THEN Merge(routed, [k \in {"Content-Type"} |-> "multipart/form-data"])
                     ELSE routed
        urlencoded == IF isFormUrlEncoded
                      THEN Merge(multipart,
                                 [k \in {"Content-Type"} |-> "application/x-www-form-urlencoded"])
                      ELSE multipart
    IN  Merge(urlencoded, headers)

\* formData.getHeaders() of the form-data package
FormDataHeaders == [k \in {"content-type"} |-> "multipart/form-data; boundary=<boundary>"]

PassthroughPath == <<"/", "v", "1", "/", "p", "a", "s", "s", "t", "h", "r", "o", "u", "g", "h">>

\* `${this.baseUrl}/v1/passthrough${resolvedPath.startsWith('/') ? resolvedPath : '/' + resolvedPath}`
Url(resolvedPath) ==
    [origin |-> baseUrl,
     path |-> PassthroughPath \o
              (IF resolvedPath # <<>> /\ Head(resolvedPath) = "/"
               THEN resolvedPath ELSE <<"/">> \o resolvedPath)]

\* method?.toLowerCase()
toLowerCase(method) ==
    CASE method \in {"GET", "Get", "get"} -> "get"
      [] method \in {"POST", "post"} -> "post"
      [] OTHER -> method

\* the text appended for one field of a form: JSON.stringify(value) for a
\* structured value, the value's string form otherwise
FieldText(value) ==
    IF TypeofObject(value) THEN [json |-> value] ELSE [text |-> toString(value)]

\* the fields appended to a FormData or URLSearchParams: those of a non-array
\* object, none for any other data
FormFields(data) ==
    IF Truthy(data) /\ data.t = "object"
    THEN [k \in DOMAIN data.o |-> FieldText(data.o[k])]
    ELSE <<>>

\* the requestConfig both executeAction and generateRequestConfig build once
\* the path is resolved
RequestConfig(actionId, connectionKey, method, resolvedPath, data, queryParams, headers, isFormData, isFormUrlEncoded) ==
    LET newHeaders == NewHeaders(actionId, connectionKey, headers, isFormData,
                                 isFormUrlEncoded)
        url == Url(resolvedPath)
    IN  IF toLowerCase(method) = "get"
        THEN [url |-> url, method |-> method, headers |-> newHeaders,
              params |-> queryParams]
        ELSE IF isFormData
        THEN [url |-> url, method |-> method,
              headers |-> Merge(newHeaders, FormDataHeaders), params |-> queryParams,
              data |-> [t |-> "FormData", fields |-> FormFields(data)]]
        ELSE IF isFormUrlEncoded
        THEN [url |-> url, method |-> method, headers |-> newHeaders,
              params |-> queryParams,
              data |-> [t |-> "URLSearchParams", fields |-> FormFields(data)]]
        ELSE [url |-> url, method |-> method, headers |-> newHeaders,
              params |-> queryParams, data |-> data]

\* a thrown Error
Thrown(error) == [ok |-> FALSE, error |-> error]

\* PicaClient.generateRequestConfig: the path is resolved when pathVariables is
\* truthy, then the requestConfig is built; nothing is sent
generateRequestConfig(actionId, connectionKey, method, path, data, pathVariables, queryParams, headers, isFormData, isFormUrlEncoded) ==
    LET resolved == IF Truthy(pathVariables)
                    THEN replacePathVariables(path, pathVariables)
                    ELSE Returned(path)
    IN  IF ~resolved.ok THEN resolved
        ELSE [ok |-> TRUE,
              requestConfig |-> RequestConfig(actionId, connectionKey, method, resolved.s,
                                              data, queryParams, headers, isFormData,
                                              isFormUrlEncoded)]

---------------------------------------------------------------------------
(* The generate_action_config_knowledge handler *)

\* templateVariables.map(v => v.replace(/\{\{|\}\}/g, '')): every "{{" and "}}"
\* of the matched text removed, nothing trimmed
RECURSIVE StripBraces(_)
StripBraces(s) ==
    IF Len(s) < 2 THEN s
    ELSE IF (s[1] = "{" /\ s[2] = "{") \/ (s[1] = "}" /\ s[2] = "}")
         THEN StripBraces(SubSeq(s, 3, Len(s)))
         ELSE <<s[1]>> \o StripBraces(Tail(s))

RequiredVariables(path) ==
    LET templateVariables == MatchAll(path)
    IN  [i \in 1..Len(templateVariables) |-> StripBraces(templateVariables[i])]

\* { ...(Array.isArray(data) ? {} : (data || {})), ...(pathVariables || {}) }
CombinedVariables(data, pathVariables) ==
    Merge(IF IsArray(data) \/ ~Truthy(data) THEN <<>> ELSE SpreadOf(data),
          IF Truthy(pathVariables) THEN SpreadOf(pathVariables) ELSE <<>>)

\* MissingVariables with a slip: only the first missing name is reported
MissingVariables_firstOnly(requiredVariables, combinedVariables) ==
    LET all == SelectSeq(requiredVariables, LAMBDA v : ~Truthy(Prop(combinedVariables, v)))
    IN  IF all = <<>> THEN <<>> ELSE <<all[1]>>

\* requiredVariables.filter(v => !combinedVariables[v])
MissingVariables(requiredVariables, combinedVariables) ==
    SelectSeq(requiredVariables, LAMBDA v : ~Truthy(Prop(combinedVariables, v)))

\* the forEach over requiredVariables: a truthy field of finalData that
\* pathVariables does not give (truthily) is copied into finalPathVariables and
\* deleted from finalData.  finalPathVariables is the caller's pathVariables
\* object itself when one was passed (given), so the test on pathVariables[v]
\* reads what earlier rounds wrote.
RECURSIVE MoveVariables(_, _, _, _, _)
MoveVariables(requiredVariables, i, finalData, finalPathVariables, given) ==
    IF i > Len(requiredVariables)
    THEN [finalData |-> finalData, finalPathVariables |-> finalPathVariables]
    ELSE LET v == requiredVariables[i]
         IN  IF Truthy(Prop(finalData, v))
                  /\ (~given \/ ~Truthy(Prop(finalPathVariables, v)))
             THEN MoveVariables(requiredVariables, i + 1, Delete(finalData, v),
                                Assign(finalPathVariables, v, finalData[v]), given)
             ELSE MoveVariables(requiredVariables, i + 1, finalData,
                                finalPathVariables, given)

\* lines 611-644: resolvedPath, finalData and finalPathVariables of a call, or
\* the error thrown on the way
PartitionParameters(path, data, pathVariables) ==
    LET given == Truthy(pathVariables)
        initialPathVariables == IF given THEN pathVariables.o ELSE <<>>
        requiredVariables == RequiredVariables(path)
    IN  IF MatchAll(path) = <<>>
        THEN [ok |-> TRUE, resolvedPath |-> path, finalData |-> data,
              finalPathVariables |-> Obj(initialPathVariables)]
        ELSE LET missingVariables ==
                     MissingVariables(requiredVariables,
                                      CombinedVariables(data, pathVariables))
                 moved == IF ~IsArray(data) /\ Truthy(data)
                          THEN MoveVariables(requiredVariables, 1, SpreadOf(data),
                                             initialPathVariables, given)
                          ELSE [finalData |-> <<>>,
                                finalPathVariables |-> initialPathVariables]
                 finalData == IF ~IsArray(data) /\ Truthy(data)
                              THEN Obj(moved.finalData) ELSE data
                 resolved == replacePathVariables(path, Obj(moved.finalPathVariables))
             IN  IF missingVariables # <<>>
                 THEN Thrown([kind |-> "MissingPathVariables", names |-> missingVariables])
                 ELSE IF ~resolved.ok THEN resolved
                 ELSE [ok |-> TRUE, resolvedPath |-> resolved.s, finalData |-> finalData,
                       finalPathVariables |-> Obj(moved.finalPathVariables)]

\* the envelope of the catch block
GenerateFailure(error) ==
    [success |-> FALSE, title |-> "Failed to create request config", message |-> error]

\* the envelope of a call that reached the end of the try block: requestConfig
\* goes out as it was built, in the envelope and, through JSON.stringify, in the
\* text of the code sample
GenerateSuccess(requestConfig) ==
    [success |-> TRUE,
     title |-> "Request config returned",
     requestConfig |-> requestConfig,
     typeScriptCode |-> [requestConfig |-> requestConfig,
                         note |-> "always use the environment variable PICA_SECRET"]]

\* ConnectionExists with a slip: only an active connection counts
ConnectionExists_activeOnly(conns, connectionKey) ==
    \E i \in 1..Len(conns) : conns[i].key = connectionKey /\ conns[i].active

\* connections.some(conn => conn.key === connectionKey)
ConnectionExists(conns, connectionKey) ==
    \E i \in 1..Len(conns) : conns[i].key = connectionKey

\* the caller's objects once the handler has run.  data is only read and
\* spread ({ ...data }, line 634), so it stays as passed.  finalPathVariables is
\* `pathVariables || {}` (line 613): when pathVariables was passed it is that
\* very object, and the assignments of the forEach (line 637) land in it; the
\* forEach runs when the path has placeholders, none is missing and data is a
\* truthy non-array.
ArgumentsAfter(path, data, pathVariables) ==
    LET given == Truthy(pathVariables)
        requiredVariables == RequiredVariables(path)
        reachesForEach ==
            /\ MatchAll(path) # <<>>
            /\ MissingVariables(requiredVariables,
                                CombinedVariables(data, pathVariables)) = <<>>
            /\ ~IsArray(data) /\ Truthy(data)
    IN  [data |-> data,
         pathVariables |->
             IF given /\ reachesForEach
             THEN Obj(MoveVariables(requiredVariables, 1, SpreadOf(data),
                                    pathVariables.o, given).finalPathVariables)
             ELSE pathVariables]

\* GenerateSent with a slip: the config that was built is also executed
GenerateSent_executes(requestConfig) == <<requestConfig>>

\* the requests the generate path hands to axios: none.  The handler calls
\* generateRequestConfig (lines 279-350), which builds and returns the config
\* and has no axios call.
GenerateSent(requestConfig) == <<>>

\* the handler, from the connection check to the envelope it returns; locals
\* keeps what the handler computed on the way, for the calls that got that far,
\* sent the requests that went to the passthrough endpoint and arguments the
\* caller's data and pathVariables as the handler leaves them
GenerateOutcome(conns, a) ==
    LET known == ConnectionExists(conns, a.connectionKey)
        parts == PartitionParameters(a.action.path, a.data, a.pathVariables)
        built == generateRequestConfig(a.action.id, a.connectionKey, a.method,
                                       parts.resolvedPath, parts.finalData,
                                       parts.finalPathVariables, a.queryParams, a.headers,
                                       a.isFormData, a.isFormUrlEncoded)
        untouched == [data |-> a.data, pathVariables |-> a.pathVariables]
        after == ArgumentsAfter(a.action.path, a.data, a.pathVariables)
    IN  IF ~known
        THEN [envelope |-> GenerateFailure([kind |-> "ConnectionNotFound",
                                            platform |-> a.platform]),
              locals |-> <<>>, sent |-> <<>>, arguments |-> untouched]
        ELSE IF ~parts.ok
        THEN [envelope |-> GenerateFailure(parts.error), locals |-> <<>>,
              sent |-> <<>>, arguments |-> after]
        ELSE IF ~built.ok
        THEN [envelope |-> GenerateFailure(built.error), locals |-> parts,
              sent |-> <<>>, arguments |-> after]
        ELSE [envelope |-> GenerateSuccess(built.requestConfig), locals |-> parts,
              sent |-> GenerateSent(built.requestConfig), arguments |-> after]

---------------------------------------------------------------------------
(* The execute_action handler *)

\* PicaClient.executeAction up to the axios call: the requestConfig handed to
\* axios, or the error thrown before anything is sent
executeActionConfig(actionId, connectionKey, method, path, data, pathVariables, queryParams, headers, isFormData, isFormUrlEncoded) ==
    LET resolved == IF Truthy(pathVariables)
                    THEN replacePathVariables(path, pathVariables)
                    ELSE Returned(path)
    IN  IF ~resolved.ok THEN resolved
        ELSE [ok |-> TRUE,
              requestConfig |-> RequestConfig(actionId, connectionKey, method, resolved.s,
                                              data, queryParams, headers, isFormData,
                                              isFormUrlEncoded)]

\* Object.keys(headers)
ObjectKeys(headers) == DOMAIN headers

\* EchoRequestConfig with a slip: the header values are echoed
EchoRequestConfig_values(method, path, requestConfig) ==
    [method |-> method, path |-> path,
     headers |-> {requestConfig.headers[k] : k \in DOMAIN requestConfig.headers}]

\* the requestConfig of the success envelope
EchoRequestConfig(method, path, requestConfig) ==
    [method |-> method, path |-> path, headers |-> ObjectKeys(requestConfig.headers)]

\* no request went out: there is no answer
NotAsked == [kind |-> "none"]

\* the characters JSON.stringify writes for one character of a string
EscapeChar(c) == IF c \in {"\"", "\\"} THEN <<"\\", c>> ELSE <<c>>

RECURSIVE EscapeString(_)
EscapeString(s) == IF s = <<>> THEN <<>> ELSE EscapeChar(Head(s)) \o EscapeString(Tail(s))

\* JSON.stringify(v), as text.  The properties of an object are written one
\* after the other, separated by commas.
RECURSIVE JSONStringify(_)
RECURSIVE JSONProperties(_, _)
JSONProperties(o, keys) ==
    IF keys = {} THEN <<>>
    ELSE LET k == CHOOSE j \in keys : TRUE
             rest == JSONProperties(o, keys \ {k})
         IN  <<"\"">> \o EscapeString(k) \o <<"\"", ":">> \o JSONStringify(o[k])
                 \o (IF rest = <<>> THEN <<>> ELSE <<",">> \o rest)

JSONStringify(v) ==
    CASE v.t = "string" -> <<"\"">> \o EscapeString(v.s) \o <<"\"">>
      [] v.t = "number" -> NatToString(v.n)
      [] v.t = "boolean" -> toString(v)
      [] v.t = "null" -> <<"n", "u", "l", "l">>
      [] v.t = "object" -> <<"{">> \o JSONProperties(v.o, DOMAIN v.o) \o <<"}">>
      [] OTHER -> <<"u", "n", "d", "e", "f", "i", "n", "e", "d">>

\* error.message of the errors execute_action can catch: the resolver's, and
\* the ones axios raises for an HTTP error status and for no response
MessageOf(error) ==
    CASE error.kind = "MissingPathVariable"
           -> <<"M", "i", "s", "s", "i", "n", "g", " ", "v", "a", "l", "u", "e", " ", "f", "o", "r", " ", "p", "a", "t", "h", " ", "v", "a", "r", "i", "a", "b", "l", "e", ":", " ">> \o error.name
      [] error.kind = "RequestFailed" /\ error.cause = "http"
           -> <<"R", "e", "q", "u", "e", "s", "t", " ", "f", "a", "i", "l", "e", "d", " ", "w", "i", "t", "h", " ", "s", "t", "a", "t", "u", "s", " ", "c", "o", "d", "e", " ">> \o NatToString(error.status)
      [] OTHER -> <<"N", "e", "t", "w", "o", "r", "k", " ", "E", "r", "r", "o", "r">>

\* the error axios raises for an answer of upstream
AxiosError(upstream) ==
    IF upstream.kind = "http"
    THEN [kind |-> "RequestFailed", cause |-> "http", status |-> upstream.status]
    ELSE [kind |-> "RequestFailed", cause |-> upstream.kind]

ServerRespondedWith == <<" ", "-", " ", "S", "e", "r", "v", "e", "r", " ", "r", "e", "s", "p", "o", "n", "d", "e", "d", " ", "w", "i", "t", "h", ":", " ">>

\* ExecuteFailure with a slip: the upstream body is left out
ExecuteFailure_messageOnly(error, upstream) ==
    [success |-> FALSE, error |-> MessageOf(error)]

\* the envelope of the catch block: the message, and after it the serialised
\* upstream body when the error carries a response
ExecuteFailure(error, upstream) ==
    IF upstream.kind = "http"
    THEN [success |-> FALSE,
          error |-> MessageOf(error) \o ServerRespondedWith \o JSONStringify(upstream.data)]
    ELSE [success |-> FALSE, error |-> MessageOf(error)]

\* Attempts with a slip: a request that failed is sent once more
Attempts_retryOnFailure(requestConfig, upstream) ==
    IF upstream.kind = "ok" THEN <<requestConfig>> ELSE <<requestConfig, requestConfig>>

\* the requests one executeAction hands to axios: the single
\* `await axios(requestConfig)` of line 268.  Its catch (lines 273-276) rethrows
\* and the handler's catch (lines 559-576) builds the envelope; neither calls
\* axios again.
Attempts(requestConfig, upstream) == <<requestConfig>>

\* the handler: what it returns and what it sent, for the answer upstream gives
\* to the request (ok, an HTTP error with a body, or no response at all)
ExecuteOutcome(a, upstream) ==
    LET built == executeActionConfig(a.actionId, a.connectionKey, a.method, a.path,
                                     a.data, a.pathVariables, a.queryParams, a.headers,
                                     a.isFormData, a.isFormUrlEncoded)
    IN  IF ~built.ok
        THEN [envelope |-> ExecuteFailure(built.error, NotAsked), sent |-> <<>>]
        ELSE IF upstream.kind = "ok"
        THEN [envelope |-> [success |-> TRUE,
                            result |-> upstream.data,
                            requestConfig |-> EchoRequestConfig(a.method, a.path,
                                                                built.requestConfig)],
              sent |-> Attempts(built.requestConfig, upstream)]
        ELSE [envelope |-> ExecuteFailure(AxiosError(upstream), upstream),
              sent |-> Attempts(built.requestConfig, upstream)]

---------------------------------------------------------------------------
(* Inputs *)

NameA == <<"a">>

NameB == <<"b">>

Literal == <<"/", "u">>

PlaceholderA == <<"{", "{", "a", "}", "}">>

PlaceholderB == <<"{", "{", "b", "}", "}">>

\* a placeholder written with blanks around the name
PlaceholderSpacedA == <<"{", "{", " ", "a", " ", "}", "}">>

\* what path templates are made of: literal text and `{{name}}` placeholders
Segments == {Literal, PlaceholderA, PlaceholderB, PlaceholderSpacedA}

RECURSIVE TemplatesOf(_)
TemplatesOf(n) ==
    IF n = 0 THEN {<<>>}
    ELSE LET shorter == TemplatesOf(n - 1)
         IN  shorter \cup {t \o g : t \in shorter, g \in Segments}

\* marks a property that an object of ObjectsOver does not have
Absent == [t |-> "absent"]

\* the plain objects with own properties among DOMAIN values: for each name k
\* either no property or one of values[k]
ObjectsOver(values) ==
    LET names == DOMAIN values
        picks == [names -> {Absent} \cup UNION {values[k] : k \in names}]
        fits  == {p \in picks : \A k \in names : p[k] = Absent \/ p[k] \in values[k]}
    IN  {Obj([k \in {n \in names : p[n] # Absent} |-> p[k]]) : p \in fits}

\* a value that itself holds "{{", "}}" and "/"
BracedValue == Str(<<"{", "{", "b", "}", "}", "/">>)

\* the variables handed to the resolver: values of every kind a caller can
\* send, missing ones included
ResolverVariables ==
    ObjectsOver([k \in {NameA, NameB} |->
                    IF k = NameA
                    THEN {Null, Undefined, Str(<<>>), Str(<<"x">>), BracedValue,
                          Num(0), Num(42), Bool(FALSE), Bool(TRUE)}
                    ELSE {Str(<<"y", " ", "z">>), Num(0)}])

NoReply == [t |-> "none"]

---------------------------------------------------------------------------
(* The resolver called on its own *)

ResolveCalls ==
    [op : {"replacePathVariables"},
     path : TemplatesOf(MaxSegs),
     variables : ResolverVariables]

\* the resolver of app/api/[transport]/route.ts (and of the current stdio server)
Resolve ==
    /\ pc = "idle"
    /\ \E a \in ResolveCalls :
        /\ call' = a
        /\ reply' = [impl |-> "route", r |-> replacePathVariables(a.path, a.variables)]
    /\ pc' = "done"
    /\ UNCHANGED <<connections, wire, lifecycleVars, dispatches, sseVars>>

\* the resolver of src/index.ts
ResolveIndex ==
    /\ pc = "idle"
    /\ \E a \in ResolveCalls :
        /\ call' = a
        /\ reply' = [impl |-> "index",
                     r |-> replacePathVariables_index(a.path, a.variables)]
    /\ pc' = "done"
    /\ UNCHANGED <<connections, wire, lifecycleVars, dispatches, sseVars>>

---------------------------------------------------------------------------
(* The tools on an initialised client *)

NameN == <<"n">>

\* the connection list the client holds
InitialConnections ==
    <<[key |-> "conn-1", platform |-> "github", active |-> TRUE],
      [key |-> "conn-2", platform |-> "slack", active |-> FALSE]>>

\* data: absent, an array, scalars, and objects with or without the field a
\* placeholder names
DataValues ==
    {Undefined, Null, Arr(<<Num(1)>>), Num(5), Str(<<"s">>)}
        \cup ObjectsOver([k \in {NameA, NameN} |->
                            IF k = NameA THEN {Num(0), Num(42)} ELSE {Str(<<"n">>)}])

PathVariableValues ==
    {Undefined}
        \cup ObjectsOver([k \in {NameA, NameB} |->
                            IF k = NameA
                            THEN {Str(<<"p">>), Str(<<>>), Num(0), Bool(FALSE)}
                            ELSE {Str(<<"q">>)}])

\* headers: none, or the caller's own x-pica-secret
PlainHeaderValues == {<<>>, [k \in {"x-pica-secret"} |-> "caller-value"]}

\* headers of every kind: also a content type, in either spelling of the key,
\* and the routing headers
HeaderValues ==
    PlainHeaderValues
        \cup {[k \in {"Content-Type"} |-> "text/plain"],
              [k \in {"content-type"} |-> "text/plain"],
              [k \in {"x-pica-connection-key", "x-pica-action-id"} |->
                  IF k = "x-pica-connection-key" THEN "caller-key" ELSE "caller-action"]}

\* paths with no, one and several leading slashes
SlashPaths == {<<"u">>, <<"/", "u">>, <<"/", "/", "u">>, <<"/", "/", "/", "u">>}

\* the paths, payloads and path variables of the calls that vary the headers
FewPaths == TemplatesOf(1) \cup SlashPaths

FewDataValues == {Undefined, Obj([k \in {NameN} |-> Str(<<"n">>)])}

FewPathVariableValues ==
    {Undefined, Obj([k \in {NameA, NameB} |-> IF k = NameA THEN Str(<<"p">>) ELSE Str(<<"q">>)])}

GenerateCallsOver(platforms, keys, paths, datas, variables, headers) ==
    [op : {"generate_action_config_knowledge"},
     platform : platforms,
     action : [id : {"act-1"}, path : paths],
     method : {"GET", "Get", "post"},
     connectionKey : keys,
     data : datas,
     pathVariables : variables,
     queryParams : {Undefined},
     headers : headers,
     isFormData : BOOLEAN,
     isFormUrlEncoded : BOOLEAN]

\* the calls: every payload and path-variable map under plain headers, and
\* every kind of header under a few payloads
GenerateCalls ==
    GenerateCallsOver({"github"}, {"conn-1", "conn-x"}, TemplatesOf(MaxPathSegs),
                      DataValues, PathVariableValues, PlainHeaderValues)
        \cup GenerateCallsOver({"github", "slack"}, {"conn-1", "conn-2", "conn-x"}, FewPaths,
                               FewDataValues, FewPathVariableValues, HeaderValues)

InitServer ==
    /\ connections = InitialConnections
    /\ call = [op |-> "none"]
    /\ reply = NoReply
    /\ wire = <<>>
    /\ pc = "idle"

\* one call of the tool, served to its envelope
Generate ==
    /\ pc = "idle"
    /\ \E a \in GenerateCalls :
        /\ call' = a
        /\ reply' = GenerateOutcome(connections, a)
        /\ wire' = GenerateOutcome(connections, a).sent
    /\ pc' = "done"
    /\ UNCHANGED <<connections, lifecycleVars, dispatches, sseVars>>


\* the body of a 404: {"error": "not found"}
NotFoundBody == Obj([k \in {<<"e", "r", "r", "o", "r">>} |-> Str(<<"n", "o", "t", " ", "f", "o", "u", "n", "d">>)])

\* what the passthrough endpoint can answer
UpstreamAnswers ==
    {[kind |-> "ok", status |-> 200, data |-> Str(<<"p", "o", "n", "g">>)],
     [kind |-> "http", status |-> 404, data |-> NotFoundBody],
     [kind |-> "http", status |-> 500, data |-> Str(<<"d", "o", "w", "n">>)],
     [kind |-> "network"]}

ExecuteCallsOver(paths, variables, headers) ==
    [op : {"execute_action"},
     actionId : {"act-1"},
     connectionKey : {"conn-1", "conn-x"},
     method : {"GET", "Get", "get", "post"},
     path : paths,
     data : FewDataValues,
     pathVariables : variables,
     queryParams : {Undefined},
     headers : headers,
     isFormData : BOOLEAN,
     isFormUrlEncoded : BOOLEAN]

ExecuteCalls ==
    ExecuteCallsOver(TemplatesOf(MaxPathSegs), PathVariableValues, PlainHeaderValues)
        \cup ExecuteCallsOver(FewPaths, FewPathVariableValues, HeaderValues)

\* one call of the tool, served to its envelope
Execute ==
    /\ pc = "idle"
    /\ \E a \in ExecuteCalls, upstream \in UpstreamAnswers :
        LET outcome == ExecuteOutcome(a, upstream)
        IN  /\ call' = a
            /\ reply' = [envelope |-> outcome.envelope,
                         upstream |-> IF outcome.sent = <<>> THEN NotAsked ELSE upstream]
            /\ wire' = outcome.sent
    /\ pc' = "done"
    /\ UNCHANGED <<connections, lifecycleVars, dispatches, sseVars>>

---------------------------------------------------------------------------
(* The HTTP server: POST /execute *)

\* PicaClient.executeAction of the HTTP server up to the axios call: routing
\* headers over the base headers, the path used as given, and the payload
\* attached for a method other than get when it is truthy
executeAction_http(actionId, connectionKey, method, path, data) ==
    LET headers == Merge(generateHeaders,
                         [k \in {"x-pica-connection-key", "x-pica-action-id"} |->
                             IF k = "x-pica-connection-key" THEN connectionKey ELSE actionId])
        url == Url(path)
    IN  IF toLowerCase(method) # "get" /\ Truthy(data)
        THEN [url |-> url, method |-> method, headers |-> headers, data |-> data]
        ELSE [url |-> url, method |-> method, headers |-> headers]

MissingRequiredParameters ==
    <<"M", "i", "s", "s", "i", "n", "g", " ", "r", "e", "q", "u", "i", "r", "e", "d", " ", "p", "a", "r", "a", "m", "e", "t", "e", "r", "s", ":", " ", "a", "c", "t", "i", "o", "n", "I", "d", ",", " ", "c", "o", "n", "n", "e", "c", "t", "i", "o", "n", "K", "e", "y", ",", " ", "m", "e", "t", "h", "o", "d", ",", " ", "p", "a", "t", "h">>

\* the /execute route: 400 when a required parameter is falsy, else the request
\* goes out and the answer is wrapped; 500 with the message when axios throws
HttpExecuteOutcome(a, upstream) ==
    LET requestConfig == executeAction_http(a.actionId, a.connectionKey, a.method,
                                            a.path, a.data)
    IN  IF a.actionId = "" \/ a.connectionKey = "" \/ a.method = "" \/ a.path = <<>>
        THEN [status |-> 400,
              envelope |-> [success |-> FALSE, error |-> MissingRequiredParameters],
              sent |-> <<>>]
        ELSE IF upstream.kind = "ok"
        THEN [status |-> 200,
              envelope |-> [success |-> TRUE, result |-> upstream.data],
              sent |-> <<requestConfig>>]
        ELSE [status |-> 500,
              envelope |-> [success |-> FALSE, error |-> MessageOf(AxiosError(upstream))],
              sent |-> <<requestConfig>>]

\* the JSON bodies a client can post: a payload of every kind, or none
HttpDataValues ==
    {Undefined, Null, Num(0), Num(5), Bool(FALSE), Str(<<>>), Str(<<"s">>),
     Arr(<<Num(1)>>), Obj([k \in {NameN} |-> Str(<<"n">>)])}

HttpExecuteCalls ==
    [op : {"http_execute"},
     actionId : {"act-1"},
     connectionKey : {"conn-1", "conn-x"},
     method : {"GET", "Get", "post", ""},
     path : TemplatesOf(MaxPathSegs) \cup SlashPaths,
     data : HttpDataValues]

\* one POST /execute, served to its response
ExecuteHttp ==
    /\ pc = "idle"
    /\ \E a \in HttpExecuteCalls, upstream \in UpstreamAnswers :
        LET outcome == HttpExecuteOutcome(a, upstream)
        IN  /\ call' = a
            /\ reply' = [envelope |-> outcome.envelope, status |-> outcome.status,
                         upstream |-> IF outcome.sent = <<>> THEN NotAsked ELSE upstream]
            /\ wire' = outcome.sent
    /\ pc' = "done"
    /\ UNCHANGED <<connections, lifecycleVars, dispatches, sseVars>>

---------------------------------------------------------------------------
(* get_action_knowledge: the lookup of one action in the catalog *)

ActionIdA == <<"a", "c", "t", "-", "1">>

ActionIdB == <<"x">>

\* the row the catalog holds for an action
KnowledgeRow(actionId) ==
    [id |-> actionId, title |-> <<"T">>, knowledge |-> <<"K">>,
     path |-> Literal \o PlaceholderA]

\* what GET /v1/knowledge?_id=... may answer: a body with the row, a body
\* with empty rows, a body without rows, an HTTP error, or no response
CatalogAnswers(actionId) ==
    {[kind |-> "ok", hasRows |-> TRUE, rows |-> <<KnowledgeRow(actionId)>>],
     [kind |-> "ok", hasRows |-> TRUE, rows |-> <<>>],
     [kind |-> "ok", hasRows |-> FALSE, rows |-> <<>>],
     [kind |-> "http", status |-> 404, statusText |-> <<"N", "o", "t", " ", "F", "o", "u", "n", "d">>],
     [kind |-> "network"]}

\* `Action with ID ${actionId} not found`
ActionNotFound(actionId) == <<"A", "c", "t", "i", "o", "n", " ", "w", "i", "t", "h", " ", "I", "D", " ">> \o actionId \o <<" ", "n", "o", "t", " ", "f", "o", "u", "n", "d">>

FailedToFetchActionKnowledge == <<"F", "a", "i", "l", "e", "d", " ", "t", "o", " ", "f", "e", "t", "c", "h", " ", "a", "c", "t", "i", "o", "n", " ", "k", "n", "o", "w", "l", "e", "d", "g", "e">>

\* `${error.response?.status} ${error.response?.statusText}`: both are
\* undefined when there was no response
StatusAndText(answer) ==
    IF answer.kind = "http"
    THEN NatToString(answer.status) \o <<" ">> \o answer.statusText
    ELSE <<"u", "n", "d", "e", "f", "i", "n", "e", "d">> \o <<" ">> \o <<"u", "n", "d", "e", "f", "i", "n", "e", "d">>

\* the try block of getActionKnowledge: the first row, or what is thrown in
\* it, by axios or by the check of the rows
KnowledgeTry(actionId, answer) ==
    IF answer.kind # "ok"
    THEN [ok |-> FALSE, isAxiosError |-> TRUE, message |-> MessageOf(AxiosError(answer))]
    ELSE IF ~answer.hasRows \/ answer.rows = <<>>
    THEN [ok |-> FALSE, isAxiosError |-> FALSE, message |-> ActionNotFound(actionId)]
    ELSE [ok |-> TRUE, row |-> answer.rows[1]]

\* the catch block of getActionKnowledge: whatever was thrown in the try block
\* is replaced by a new error; route.ts adds the status of an axios error
KnowledgeCatch(server, thrown, answer) ==
    IF server = "route" /\ thrown.isAxiosError
    THEN FailedToFetchActionKnowledge \o <<":", " ">> \o StatusAndText(answer)
    ELSE FailedToFetchActionKnowledge

\* PicaClient.getActionKnowledge: route.ts refuses an empty id before it asks
getActionKnowledge(server, actionId, answer) ==
    LET tried == KnowledgeTry(actionId, answer)
    IN  IF server = "route" /\ actionId = <<>>
        THEN [ok |-> FALSE, asked |-> FALSE, message |-> <<"A", "c", "t", "i", "o", "n", " ", "I", "D", " ", "i", "s", " ", "r", "e", "q", "u", "i", "r", "e", "d">>]
        ELSE IF tried.ok
        THEN [ok |-> TRUE, asked |-> TRUE, row |-> tried.row]
        ELSE [ok |-> FALSE, asked |-> TRUE,
              message |-> KnowledgeCatch(server, tried, answer)]

\* the handler: the envelope of the action, or of the message of the error
KnowledgeOutcome(server, actionId, answer) ==
    LET got == getActionKnowledge(server, actionId, answer)
    IN  [envelope |-> IF got.ok
                      THEN [success |-> TRUE,
                            action |-> [id |-> got.row.id, title |-> got.row.title,
                                        knowledge |-> got.row.knowledge,
                                        path |-> got.row.path]]
                      ELSE [success |-> FALSE, error |-> got.message],
         asked |-> got.asked]

KnowledgeCalls ==
    {[op |-> "get_action_knowledge", server |-> server, actionId |-> actionId,
      answer |-> answer] :
        server \in {"route", "index"}, actionId \in {ActionIdA, ActionIdB, <<>>},
        answer \in UNION {CatalogAnswers(id) : id \in {ActionIdA, ActionIdB}}}

\* one get_action_knowledge call, served to its envelope
Knowledge ==
    /\ pc = "idle"
    /\ \E a \in KnowledgeCalls :
        /\ call' = a
        /\ reply' = KnowledgeOutcome(a.server, a.actionId, a.answer)
    /\ wire' = <<>>
    /\ pc' = "done"
    /\ UNCHANGED <<connections, lifecycleVars, dispatches, sseVars>>

---------------------------------------------------------------------------
(* The cached lists of the client: connections and connection definitions *)

RowsA == InitialConnections

RowsB == <<[key |-> "conn-3", platform |-> "github", active |-> TRUE]>>

\* what GET /v1/vault/connections may answer: a body with rows, a body
\* without rows, or a failure
VaultAnswers ==
    {[kind |-> "ok", hasRows |-> TRUE, rows |-> RowsA],
     [kind |-> "ok", hasRows |-> TRUE, rows |-> RowsB],
     [kind |-> "ok", hasRows |-> FALSE, rows |-> <<>>],
     [kind |-> "network", hasRows |-> FALSE, rows |-> <<>>]}

DefinitionRows == <<[name |-> "GitHub", platform |-> "github"]>>

\* what GET /v1/available-connectors may answer
ConnectorAnswers ==
    {[kind |-> "ok", hasRows |-> TRUE, rows |-> DefinitionRows],
     [kind |-> "network", hasRows |-> FALSE, rows |-> <<>>]}

\* response.data?.rows || []
RowsOf(answer) == IF answer.hasRows THEN answer.rows ELSE <<>>

\* refreshConnections with a slip: a failed fetch empties the cache
refreshConnections_clearsOnFailure(cache, answer) ==
    IF answer.kind = "ok"
    THEN [connections |-> RowsOf(answer), returned |-> RowsOf(answer), threw |-> FALSE]
    ELSE [connections |-> <<>>, returned |-> <<>>, threw |-> FALSE]

\* PicaClient.refreshConnections: the rows replace the cache and are returned;
\* the catch block logs and returns the cache as it is
refreshConnections(cache, answer) ==
    IF answer.kind = "ok"
    THEN [connections |-> RowsOf(answer), returned |-> RowsOf(answer), threw |-> FALSE]
    ELSE [connections |-> cache, returned |-> cache, threw |-> FALSE]

\* PicaClient.initializeConnections: refreshConnections, and an empty list
\* should it throw
initializeConnections(cache, answer) ==
    LET refreshed == refreshConnections(cache, answer)
    IN  [connections |-> IF refreshed.threw THEN <<>> ELSE refreshed.connections,
         threw |-> FALSE]

\* initializeConnectionDefinitions with a slip: no catch block
initializeConnectionDefinitions_rethrows(held, answer) ==
    IF answer.kind = "ok"
    THEN [connectionDefinitions |-> RowsOf(answer), threw |-> FALSE]
    ELSE [connectionDefinitions |-> held, threw |-> TRUE]

\* PicaClient.initializeConnectionDefinitions: the rows, or an empty list when
\* the fetch fails
initializeConnectionDefinitions(held, answer) ==
    IF answer.kind = "ok"
    THEN [connectionDefinitions |-> RowsOf(answer), threw |-> FALSE]
    ELSE [connectionDefinitions |-> <<>>, threw |-> FALSE]

\* the answers from the latest success on, once one more has come
Answered(answers, answer) ==
    IF answer.kind = "ok" THEN <<answer>> ELSE Append(answers, answer)

\* the rows of the latest answer that was a success, or none
RECURSIVE LastGoodRows(_)
LastGoodRows(answers) ==
    IF answers = <<>> THEN <<>>
    ELSE IF answers[Len(answers)].kind = "ok" THEN RowsOf(answers[Len(answers)])
    ELSE LastGoodRows(SubSeq(answers, 1, Len(answers) - 1))

---------------------------------------------------------------------------
(* The dispatcher boundary: initialisation and the routing of a tool call *)

ToolNames ==
    {"list_user_connections_and_available_connectors", "get_available_actions",
     "get_action_knowledge", "execute_action", "generate_action_config_knowledge"}

\* what a handler does with a call: it returns an envelope, or an exception
\* leaves it
ReturnedEnvelope(envelope) == [outcome |-> "returned", envelope |-> envelope]

Escaped(error) == [outcome |-> "thrown", error |-> error]

\* the arguments the tools are called with when the call has arguments
SampleExecuteCall ==
    [op |-> "execute_action", actionId |-> "act-1", connectionKey |-> "conn-1",
     method |-> "GET", path |-> Literal, data |-> Undefined, pathVariables |-> Undefined,
     queryParams |-> Undefined, headers |-> <<>>, isFormData |-> FALSE,
     isFormUrlEncoded |-> FALSE]

SampleGenerateCall ==
    [op |-> "generate_action_config_knowledge", platform |-> "github",
     action |-> [id |-> "act-1", path |-> Literal \o PlaceholderA], method |-> "GET",
     connectionKey |-> "conn-1", data |-> Undefined, pathVariables |-> Undefined,
     queryParams |-> Undefined, headers |-> <<>>, isFormData |-> FALSE,
     isFormUrlEncoded |-> FALSE]

\* the envelope of list_user_connections_and_available_connectors
ListEnvelope(conns) ==
    [success |-> TRUE,
     connections |-> SelectSeq(conns, LAMBDA conn : conn.active)]

\* the answer GET /v1/vault/connections gives when the catalog is up or down
VaultWhen(catalog) ==
    IF catalog = "up"
    THEN [kind |-> "ok", hasRows |-> TRUE, rows |-> RowsA]
    ELSE [kind |-> "network", hasRows |-> FALSE, rows |-> <<>>]

\* the answer the catalog gives when it is up or down
CatalogWhen(catalog) ==
    IF catalog = "up"
    THEN [kind |-> "ok", hasRows |-> TRUE, rows |-> <<KnowledgeRow(ActionIdA)>>]
    ELSE [kind |-> "network"]

\* the envelope of get_available_actions: the catalog answers, or the client
\* throws and the catch block wraps the message; route.ts adds the status of
\* an axios error
ActionsEnvelope(server, catalog) ==
    IF catalog = "up"
    THEN [success |-> TRUE, platform |-> "github", actions |-> <<[id |-> "act-1"]>>]
    ELSE [success |-> FALSE,
          error |-> <<"F", "a", "i", "l", "e", "d", " ", "t", "o", " ", "f", "e", "t", "c", "h", " ", "a", "v", "a", "i", "l", "a", "b", "l", "e", " ", "a", "c", "t", "i", "o", "n", "s">>
                    \o IF server = "route"
                       THEN <<":", " ">> \o StatusAndText(CatalogWhen(catalog))
                       ELSE <<>>]

\* the envelope of get_action_knowledge for the action act-1
KnowledgeEnvelope(server, catalog) ==
    KnowledgeOutcome(server, ActionIdA, CatalogWhen(catalog)).envelope

\* the answer the passthrough endpoint gives when the platform is up or down
UpstreamWhen(catalog) ==
    IF catalog = "up"
    THEN [kind |-> "ok", status |-> 200, data |-> Str(<<"p", "o", "n", "g">>)]
    ELSE [kind |-> "network"]

\* the body of a tool, once the handler has reached it
ToolBody(conns, server, name, catalog) ==
    CASE name = "list_user_connections_and_available_connectors"
           -> ListEnvelope(refreshConnections(conns, VaultWhen(catalog)).connections)
      [] name = "get_available_actions" -> ActionsEnvelope(server, catalog)
      [] name = "get_action_knowledge" -> KnowledgeEnvelope(server, catalog)
      [] name = "execute_action"
           -> ExecuteOutcome(SampleExecuteCall, UpstreamWhen(catalog)).envelope
      [] OTHER -> GenerateOutcome(conns, SampleGenerateCall).envelope

\* a tool callback of app/api/[transport]/route.ts: initializePica() runs
\* before the try block and throws when PICA_SECRET is not set
RouteToolCall(conns, a) ==
    IF ~a.secretSet
    THEN Escaped(<<"P", "I", "C", "A", "_", "S", "E", "C", "R", "E", "T", " ", "e", "n", "v", "i", "r", "o", "n", "m", "e", "n", "t", " ", "v", "a", "r", "i", "a", "b", "l", "e", " ", "i", "s", " ", "r", "e", "q", "u", "i", "r", "e", "d">>)
    ELSE ReturnedEnvelope(ToolBody(conns, a.server, a.name, a.catalog))

\* the CallToolRequestSchema handler of src/index.ts: a switch over the tool
\* name whose default throws; execute_action destructures the arguments
\* before its try block
IndexToolCall(conns, a) ==
    CASE a.name \in {"list_user_connections_and_available_connectors",
                     "get_available_actions", "get_action_knowledge"}
           -> ReturnedEnvelope(ToolBody(conns, a.server, a.name, a.catalog))
      [] a.name = "execute_action"
           -> IF a.hasArguments
              THEN ReturnedEnvelope(ToolBody(conns, a.server, a.name, a.catalog))
              ELSE Escaped(<<"C", "a", "n", "n", "o", "t", " ", "d", "e", "s", "t", "r", "u", "c", "t", "u", "r", "e", " ", "p", "r", "o", "p", "e", "r", "t", "y", " ", "'", "a", "c", "t", "i", "o", "n", "I", "d", "'", " ", "o", "f", " ", "'", "r", "e", "q", "u", "e", "s", "t", ".", "p", "a", "r", "a", "m", "s", ".", "a", "r", "g", "u", "m", "e", "n", "t", "s", "'", " ", "a", "s", " ", "i", "t", " ", "i", "s", " ", "u", "n", "d", "e", "f", "i", "n", "e", "d", ".">>)
      [] OTHER -> Escaped(<<"U", "n", "k", "n", "o", "w", "n", " ", "t", "o", "o", "l">>)

\* the calls: any of the five tools on the route server, with the secret set or
\* not; any tool name, with or without arguments, on the stdio server
DispatchCalls ==
    [op : {"tools/call"}, server : {"route"}, name : ToolNames, hasArguments : {TRUE},
     secretSet : BOOLEAN, catalog : {"up", "down"}]
        \cup [op : {"tools/call"}, server : {"index"},
              name : ToolNames \cup {"no_such_tool"}, hasArguments : BOOLEAN,
              secretSet : {TRUE}, catalog : {"up", "down"}]

\* the call reaches the body of the list tool, which refreshes the connections
Refreshes(a) ==
    /\ a.name = "list_user_connections_and_available_connectors"
    /\ a.secretSet

\* one tool call, from the handler's entry to the way it ends
Dispatch ==
    /\ pc = "idle"
    /\ \E a \in DispatchCalls :
        /\ call' = a
        /\ reply' = IF a.server = "route"
                    THEN RouteToolCall(connections, a)
                    ELSE IndexToolCall(connections, a)
        /\ wire' = IF a.name = "execute_action" /\ a.hasArguments /\ a.secretSet
                   THEN ExecuteOutcome(SampleExecuteCall, UpstreamWhen(a.catalog)).sent
                   ELSE <<>>
        /\ connections' = IF Refreshes(a)
                          THEN refreshConnections(connections, VaultWhen(a.catalog)).connections
                          ELSE connections
        /\ fetched' = IF Refreshes(a)
                      THEN Answered(fetched, VaultWhen(a.catalog))
                      ELSE fetched
    /\ pc' = "done"
    /\ UNCHANGED <<variant, picaInitialized, initializationPromise, connectionDefinitions,
                   runs, requests, dispatches, sseVars>>

---------------------------------------------------------------------------
(* The start of a server: initializePica, PicaClient.initialize and          *)
(* refreshConnections.  The code between two awaits runs as one step.        *)

Requests == 1..MaxRequests

\* app/api/[transport]/route.ts, src/index.ts, the current stdio server and
\* the compiled SSE server
Variants == {"route", "index", "stdio", "sse"}

\* src/index.ts has no initializationPromise; the other three keep the promise
\* of the run in flight
KeepsPromise(v) == v # "index"

\* a call of PicaClient.initialize(): both fetches are in flight
NewRun == [connections |-> "pending", definitions |-> "pending", settled |-> "no"]

\* how one of the two halves of initialize() ended
FetchStatus(answer, threw) ==
    IF threw THEN "threw" ELSE IF answer.kind = "ok" THEN "ok" ELSE "failed"

\* Promise.all over the two halves: pending while one is, rejected when one
\* threw, resolved otherwise
SettleOf(run) ==
    IF run.connections = "pending" \/ run.definitions = "pending" THEN "no"
    ELSE IF run.connections = "threw" \/ run.definitions = "threw" THEN "rejected"
    ELSE "resolved"

NewRequest ==
    [pc |-> "new", tool |-> "none", awaits |-> 0, outcome |-> "none",
     answer |-> "none", returned |-> <<>>, lastGood |-> <<>>]

\* the handler after `await initializePica()`: the list tool starts
\* refreshConnections and waits for it, every other tool goes on to its body
Proceed(request) ==
    IF request.tool = "list_user_connections_and_available_connectors"
    THEN [request EXCEPT !.pc = "refreshing"]
    ELSE [request EXCEPT !.pc = "done", !.outcome = "served"]

\* the rejection of initializePica() leaves the handler as an exception
Refuse(request) == [request EXCEPT !.pc = "done", !.outcome = "refused"]

\* initializePica() found nothing to wait for and calls picaClient.initialize();
\* route.ts makes the client first (picaClient = new PicaClient(...))
StartInitialize ==
    /\ runs' = Append(runs, NewRun)
    /\ initializationPromise' = IF KeepsPromise(variant) THEN Len(runs) + 1 ELSE 0
    /\ connections' = IF variant = "route" THEN <<>> ELSE connections
    /\ connectionDefinitions' = IF variant = "route" THEN <<>> ELSE connectionDefinitions

\* a tool request reaches its handler, which calls initializePica().  The SSE
\* server listens only once main() has awaited initializePica().  Requests are
\* numbered in the order they arrive.
Arrive(r) ==
    /\ requests[r].pc = "new"
    /\ \A earlier \in Requests : earlier < r => requests[earlier].pc # "new"
    /\ variant = "sse" => picaInitialized
    /\ \E tool \in ToolNames :
        LET request == [requests[r] EXCEPT !.tool = tool]
        IN  IF picaInitialized
            THEN /\ requests' = [requests EXCEPT ![r] = Proceed(request)]
                 /\ UNCHANGED <<runs, initializationPromise, connections,
                                connectionDefinitions>>
            ELSE IF KeepsPromise(variant) /\ initializationPromise # 0
            THEN /\ requests' = [requests EXCEPT
                                   ![r] = [request EXCEPT !.pc = "waiting",
                                                          !.awaits = initializationPromise]]
                 /\ UNCHANGED <<runs, initializationPromise, connections,
                                connectionDefinitions>>
            ELSE /\ requests' = [requests EXCEPT
                                   ![r] = [request EXCEPT !.pc = "waiting",
                                                          !.awaits = Len(runs) + 1]]
                 /\ StartInitialize
    /\ UNCHANGED <<variant, picaInitialized, fetched, engineVars, dispatches, sseVars>>

\* main() of the SSE server calls initializePica() before app.listen
Main ==
    /\ variant = "sse"
    /\ runs = <<>>
    /\ StartInitialize
    /\ UNCHANGED <<variant, picaInitialized, requests, fetched, engineVars, dispatches,
                   sseVars>>

\* run i goes on as `run` after one of its fetches was answered.  When that was
\* the last one, initialize() settles in the same turn: picaInitialized is set
\* (or the promise dropped), and the handlers that awaited the run go on.
Settle(i, run) ==
    LET outcome == SettleOf(run)
    IN  /\ runs' = [runs EXCEPT ![i] = [run EXCEPT !.settled = outcome]]
        /\ picaInitialized' = (picaInitialized \/ outcome = "resolved")
        /\ initializationPromise' =
               IF outcome = "rejected" /\ KeepsPromise(variant)
               THEN 0 ELSE initializationPromise
        /\ requests' =
               [r \in Requests |->
                   IF requests[r].pc = "waiting" /\ requests[r].awaits = i
                   THEN CASE outcome = "resolved" -> Proceed(requests[r])
                          [] outcome = "rejected" -> Refuse(requests[r])
                          [] OTHER -> requests[r]
                   ELSE requests[r]]

\* the connections fetch of a run is answered
ConnectionsFetched ==
    /\ \E i \in 1..Len(runs), answer \in VaultAnswers :
        /\ runs[i].connections = "pending"
        /\ LET done == initializeConnections(connections, answer)
           IN  /\ connections' = done.connections
               /\ Settle(i, [runs[i] EXCEPT
                               !.connections = FetchStatus(answer, done.threw)])
        /\ fetched' = Answered(fetched, answer)
    /\ UNCHANGED <<variant, connectionDefinitions, engineVars, dispatches, sseVars>>

\* the connection-definitions fetch of a run is answered
DefinitionsFetched ==
    /\ \E i \in 1..Len(runs), answer \in ConnectorAnswers :
        /\ runs[i].definitions = "pending"
        /\ LET done == initializeConnectionDefinitions(connectionDefinitions, answer)
           IN  /\ connectionDefinitions' = done.connectionDefinitions
               /\ Settle(i, [runs[i] EXCEPT
                               !.definitions = FetchStatus(answer, done.threw)])
    /\ UNCHANGED <<variant, connections, fetched, engineVars, dispatches, sseVars>>

\* the refreshConnections of a list call is answered, and the handler answers
\* from the cache; the request keeps the kind of the answer, what
\* refreshConnections returned, and the rows of the latest successful fetch
\* at that moment
Refreshed(r) ==
    /\ requests[r].pc = "refreshing"
    /\ \E answer \in VaultAnswers :
        LET refreshed == refreshConnections(connections, answer)
        IN  /\ connections' = refreshed.connections
            /\ fetched' = Answered(fetched, answer)
            /\ requests' = [requests EXCEPT
                              ![r] = [@ EXCEPT !.pc = "done",
                                               !.outcome = IF refreshed.threw
                                                           THEN "refused" ELSE "served",
                                               !.returned = refreshed.returned,
                                               !.answer = answer.kind,
                                               !.lastGood =
                                                   LastGoodRows(Answered(fetched, answer))]]
    /\ UNCHANGED <<variant, picaInitialized, initializationPromise, connectionDefinitions,
                   runs, engineVars, dispatches, sseVars>>

\* a server of variant v whose initialisation has ended, with the connections
\* RowsA
InitialisedAs(v) ==
    /\ variant = v
    /\ picaInitialized = TRUE
    /\ initializationPromise = 1
    /\ connectionDefinitions = DefinitionRows
    /\ runs = <<[connections |-> "ok", definitions |-> "ok", settled |-> "resolved"]>>
    /\ requests = [r \in Requests |-> NewRequest]
    /\ fetched = <<[kind |-> "ok", hasRows |-> TRUE, rows |-> RowsA]>>

\* a server process that has just been started, with PICA_SECRET set
Started ==
    /\ variant \in Variants
    /\ picaInitialized = FALSE
    /\ initializationPromise = 0
    /\ connections = <<>>
    /\ connectionDefinitions = <<>>
    /\ runs = <<>>
    /\ requests = [r \in Requests |-> NewRequest]
    /\ fetched = <<>>

---------------------------------------------------------------------------
(* Tool calls in flight at the same time: a handler runs from one await to   *)
(* the next, and the handlers of other calls run in between.                 *)

Dispatchers == 1..MaxDispatches

\* generate and execute calls, with and without a known connection, a
\* placeholder and its value
ConcurrentCalls ==
    {a \in GenerateCallsOver({"github"}, {"conn-1", "conn-x"}, {Literal \o PlaceholderA},
                             {Undefined, Obj([k \in {NameA} |-> Num(42)])},
                             FewPathVariableValues, {<<>>}) :
        a.method = "post" /\ ~a.isFormData /\ ~a.isFormUrlEncoded}
    \cup
    {a \in ExecuteCallsOver({Literal \o PlaceholderA}, FewPathVariableValues, {<<>>}) :
        a.method = "post" /\ ~a.isFormData /\ ~a.isFormUrlEncoded}

NoDispatch == [pc |-> "idle", call |-> [op |-> "none"], upstream |-> NotAsked,
               envelope |-> NoReply]

\* Held with a slip: the arguments are kept in one place for all dispatches,
\* and a handler that resumes reads those of the latest dispatch in flight
Held_shared(p) ==
    LET inFlight == {q \in Dispatchers : dispatches[q].pc = "awaiting"}
    IN  dispatches[CHOOSE q \in inFlight : \A o \in inFlight : o <= q].call

\* the arguments a handler reads when it resumes after an await: the
\* parameters of its own invocation (lines 528 and 599)
Held(p) == dispatches[p].call

\* the request the handler of a call hands to axios before its first await,
\* if it gets that far
RequestOf(a) ==
    IF a.op = "execute_action"
    THEN LET built == executeActionConfig(a.actionId, a.connectionKey, a.method, a.path,
                                          a.data, a.pathVariables, a.queryParams,
                                          a.headers, a.isFormData, a.isFormUrlEncoded)
         IN  IF built.ok THEN <<built.requestConfig>> ELSE <<>>
    ELSE <<>>

\* a handler is entered and runs to its await: of axios for execute_action, of
\* generateRequestConfig for generate_action_config_knowledge.  A call that
\* fails before its await is held here too and gets its envelope in End.
Begin(p) ==
    /\ dispatches[p].pc = "idle"
    /\ \E a \in ConcurrentCalls :
        /\ dispatches' = [dispatches EXCEPT ![p] = [@ EXCEPT !.pc = "awaiting", !.call = a]]
        /\ wire' = wire \o RequestOf(a)
    /\ UNCHANGED <<connections, call, reply, pc, lifecycleVars, sseVars>>

\* the handler resumes and returns its envelope
End(p) ==
    /\ dispatches[p].pc = "awaiting"
    /\ \E upstream \in UpstreamAnswers :
        LET a == Held(p)
            asked == RequestOf(dispatches[p].call) # <<>>
        IN  dispatches' =
                [dispatches EXCEPT
                   ![p] = [@ EXCEPT
                             !.pc = "done",
                             !.upstream = IF asked THEN upstream ELSE NotAsked,
                             !.envelope =
                                 IF a.op = "execute_action"
                                 THEN ExecuteOutcome(a, upstream).envelope
                                 ELSE GenerateOutcome(connections, a).envelope]]
    /\ UNCHANGED <<connections, engineVars, lifecycleVars, sseVars>>

NoDispatches == dispatches = [p \in Dispatchers |-> NoDispatch]

---------------------------------------------------------------------------
(* The SSE server: GET /sse, the close of a connection, POST /messages *)

SessionIds == 1..MaxSessions

\* the sessionId query parameter of a POST that has none
NoSessionId == 0

NotPosted == [sessionId |-> NoSessionId, status |-> 0, handedTo |-> NoSessionId,
              openThen |-> {}]

\* the sessions whose response is still open
OpenSessions == {id \in SessionIds : sockets[id] \in {"open", "failed"}}

\* OnClose with a slip: the entry stays in the map
OnClose_keeps(map, id) == map

\* the listener of the response's close event: transports.delete(sessionId)
OnClose(map, id) == map \ {id}

\* GET /sse: a transport with a fresh session id is put in the map and the
\* close listener is set; then server.connect either returns or throws, and
\* in the latter case the request is answered 500
OpenSse ==
    /\ \E id \in SessionIds, connected \in BOOLEAN :
        /\ sockets[id] = "none"
        /\ \A other \in SessionIds : other < id => sockets[other] # "none"
        /\ transports' = transports \cup {id}
        /\ sockets' = [sockets EXCEPT ![id] = IF connected THEN "open" ELSE "failed"]
    /\ UNCHANGED <<connections, engineVars, lifecycleVars, dispatches, posted>>

\* the response of a session closes and the listener runs
CloseSse ==
    /\ \E id \in OpenSessions :
        /\ sockets' = [sockets EXCEPT ![id] = "closed"]
        /\ transports' = OnClose(transports, id)
    /\ UNCHANGED <<connections, engineVars, lifecycleVars, dispatches, posted>>

\* POST /messages: 400 without a sessionId, 404 for a sessionId that is not in
\* the map; otherwise the message goes to the transport, which answers it
\* (202) unless handlePostMessage throws (500)
PostAnswer(map, sessionId, handled) ==
    IF sessionId = NoSessionId THEN [status |-> 400, handedTo |-> NoSessionId]
    ELSE IF sessionId \notin map THEN [status |-> 404, handedTo |-> NoSessionId]
    ELSE [status |-> IF handled THEN 202 ELSE 500, handedTo |-> sessionId]

PostMessage ==
    /\ \E sessionId \in SessionIds \cup {NoSessionId}, handled \in BOOLEAN :
        LET answer == PostAnswer(transports, sessionId, handled)
        IN  posted' = [sessionId |-> sessionId, status |-> answer.status,
                       handedTo |-> answer.handedTo, openThen |-> OpenSessions]
    /\ UNCHANGED <<connections, engineVars, lifecycleVars, dispatches, transports, sockets>>

NoSessions ==
    /\ transports = {}
    /\ sockets = [id \in SessionIds |-> "none"]
    /\ posted = NotPosted

---------------------------------------------------------------------------
(* The specification: one operation, served from start to end *)

Init == InitServer /\ InitialisedAs("route") /\ NoDispatches /\ NoSessions

Next == Generate \/ Execute \/ ExecuteHttp \/ Dispatch \/ Knowledge \/ Resolve \/ ResolveIndex

Spec == Init /\ [][Next]_vars

\* a server from its start, with the requests that reach it meanwhile
InitLifecycle ==
    /\ Started
    /\ call = [op |-> "none"]
    /\ reply = NoReply
    /\ wire = <<>>
    /\ pc = "idle"
    /\ NoDispatches
    /\ NoSessions

NextLifecycle ==
    \/ Main
    \/ \E r \in Requests : Arrive(r)
    \/ ConnectionsFetched
    \/ DefinitionsFetched
    \/ \E r \in Requests : Refreshed(r)

SpecLifecycle == InitLifecycle /\ [][NextLifecycle]_vars

\* an initialised server and the tool calls that overlap on it
InitDispatches == InitServer /\ InitialisedAs("route") /\ NoDispatches /\ NoSessions

NextDispatches ==
    \/ \E p \in Dispatchers : Begin(p)
    \/ \E p \in Dispatchers : End(p)

SpecDispatches == InitDispatches /\ [][NextDispatches]_vars

\* the SSE server once it listens
InitSse == InitServer /\ InitialisedAs("sse") /\ NoDispatches /\ NoSessions

NextSse == OpenSse \/ CloseSse \/ PostMessage

SpecSse == InitSse /\ [][NextSse]_vars

ResolveDone == pc = "done" /\ call.op = "replacePathVariables"

GenerateDone == pc = "done" /\ call.op = "generate_action_config_knowledge"

ExecuteDone == pc = "done" /\ call.op = "execute_action"

HttpExecuteDone == pc = "done" /\ call.op = "http_execute"

DispatchDone == pc = "done" /\ call.op = "tools/call"

KnowledgeDone == pc = "done" /\ call.op = "get_action_knowledge"

---------------------------------------------------------------------------
(* C4, C5: the resolver *)

\* the names of the placeholders of a template, blanks around them trimmed
PlaceholderNames(path) ==
    LET found == MatchAll(path)
    IN  {Trim(SubSeq(found[i], 3, Len(found[i]) - 2)) : i \in 1..Len(found)}

\* a name that has no usable value: absent, null, undefined or ''
IsMissing(variables, name) == Get(variables, name) \in {Undefined, Null, Str(<<>>)}

MissingNames(path, variables) ==
    {n \in PlaceholderNames(path) : IsMissing(variables, n)}

RECURSIVE SubstitutedFrom(_, _, _)
SubstitutedFrom(s, i, variables) ==
    IF i > Len(s) THEN <<>>
    ELSE IF MatchAt(s, i)
         THEN encodeURIComponent(toString(Get(variables, Trim(Captured(s, i)))))
                \o SubstitutedFrom(s, MatchEnd(s, i), variables)
         ELSE <<s[i]>> \o SubstitutedFrom(s, i + 1, variables)

\* C5: when every placeholder of the template has a non-empty value,
\* replacePathVariables returns a string without "{{" in which each placeholder
\* is replaced by the percent-encoded string form of its value.
C5_ResolvedAndEncoded ==
    (ResolveDone
        /\ MissingNames(call.path, call.variables) = {})
    => /\ reply.r.ok
       /\ ~HasOpen(reply.r.s)
       /\ reply.r.s = SubstitutedFrom(call.path, 1, call.variables)

\* the same for the resolver of route.ts alone
ResolvedAndEncoded_route ==
    (ResolveDone /\ reply.impl = "route"
        /\ MissingNames(call.path, call.variables) = {})
    => /\ reply.r.ok
       /\ ~HasOpen(reply.r.s)
       /\ reply.r.s = SubstitutedFrom(call.path, 1, call.variables)

---------------------------------------------------------------------------
(* C1, C2, C3: what goes out *)

\* a requestConfig that shows the configured secret
ShowsSecret(requestConfig) ==
    \E k \in DOMAIN requestConfig.headers : requestConfig.headers[k] = PICA_SECRET

\* C1: whenever generate_action_config_knowledge succeeds, neither the
\* requestConfig of the envelope nor the one rendered in the code sample holds
\* the configured PICA_SECRET.
C1_SecretNeverRendered ==
    (GenerateDone /\ reply.envelope.success)
    => /\ ~ShowsSecret(reply.envelope.requestConfig)
       /\ ~ShowsSecret(reply.envelope.typeScriptCode.requestConfig)

\* C2: on success the execute_action envelope echoes method, path and the
\* names of the headers that were sent, and none of their values.
C2_EchoHasHeaderNamesOnly ==
    (ExecuteDone /\ reply.envelope.success)
    => LET echo == reply.envelope.requestConfig
           sent == wire[1].headers
       IN  /\ DOMAIN echo = {"method", "path", "headers"}
           /\ echo.method = call.method
           /\ echo.path = call.path
           /\ echo.headers = DOMAIN sent
           /\ \A k \in DOMAIN sent : sent[k] \notin echo.headers
           /\ PICA_SECRET \notin echo.headers

\* a successful call whose request carried the secret, and whose echo names
\* the header
C2_Witness ==
    /\ ExecuteDone
    /\ reply.envelope.success
    /\ wire[1].headers["x-pica-secret"] = PICA_SECRET
    /\ "x-pica-secret" \in reply.envelope.requestConfig.headers

\* C3: no request is sent by execute_action and no descriptor is returned by
\* generate_action_config_knowledge whose url still has a "{{" placeholder.
C3_NoPlaceholderGoesOut ==
    /\ ExecuteDone => \A i \in 1..Len(wire) : ~HasOpen(wire[i].url.path)
    /\ (GenerateDone /\ reply.envelope.success)
         => ~HasOpen(reply.envelope.requestConfig.url.path)

\* the generate half of C3, which the handler's own check of the template keeps
NoPlaceholderGenerated ==
    (GenerateDone /\ reply.envelope.success)
    => ~HasOpen(reply.envelope.requestConfig.url.path)

---------------------------------------------------------------------------
(* C6 - C10: the partition of data and pathVariables in generate mode *)

ConnectionKnown ==
    \E i \in 1..Len(connections) : connections[i].key = call.connectionKey

\* the fields of data a path variable may come from: those of a plain object
DataFields == IF call.data.t = "object" THEN call.data.o ELSE <<>>

ExplicitFields == IF call.pathVariables.t = "object" THEN call.pathVariables.o ELSE <<>>

\* the combined lookup of the specification: explicit values before data
Lookup == Obj(Merge(DataFields, ExplicitFields))

\* the call failed with the missing-path-variables error
MissingReported ==
    /\ ~reply.envelope.success
    /\ reply.envelope.message.kind = "MissingPathVariables"

ReportedNames ==
    {Trim(reply.envelope.message.names[i]) : i \in 1..Len(reply.envelope.message.names)}

\* C6: a path variable given as the number 0 or the boolean false is present:
\* the resolver does not report it missing, and generate mode does not list it
\* among the missing path variables.
C6_ZeroAndFalseArePresent ==
    /\ (ResolveDone /\ ~reply.r.ok)
         => Get(call.variables, Trim(reply.r.error.name)) \notin {Num(0), Bool(FALSE)}
    /\ (GenerateDone /\ MissingReported)
         => \A n \in ReportedNames : Get(Lookup, n) \notin {Num(0), Bool(FALSE)}

\* the placeholder names that are fields of data and not given in pathVariables
MovedNames ==
    (PlaceholderNames(call.action.path) \cap DOMAIN DataFields) \ DOMAIN ExplicitFields

\* C7: every placeholder name that is a field of the object data and is not
\* given in pathVariables is moved: the call yields a descriptor, the final
\* path variables hold data's value for it, the path is resolved with it, it is
\* gone from the payload, and every other field of data is still there.
C7_DataFieldsMoved ==
    (GenerateDone /\ ConnectionKnown /\ MovedNames # {}
        /\ MissingNames(call.action.path, Lookup) = {})
    => LET moved == MovedNames
       IN  /\ reply.envelope.success
           /\ reply.locals.resolvedPath = SubstitutedFrom(call.action.path, 1, Lookup)
           /\ \A n \in moved :
                /\ Get(reply.locals.finalPathVariables, n) = DataFields[n]
                /\ n \notin DOMAIN reply.locals.finalData.o
           /\ \A n \in DOMAIN DataFields \ moved :
                Get(reply.locals.finalData, n) = DataFields[n]

\* the same for the calls that yield a descriptor
DataFieldsMovedOnSuccess ==
    (GenerateDone /\ reply.envelope.success /\ MovedNames # {})
    => LET moved == MovedNames
       IN  /\ reply.locals.resolvedPath = SubstitutedFrom(call.action.path, 1, Lookup)
           /\ \A n \in moved :
                /\ Get(reply.locals.finalPathVariables, n) = DataFields[n]
                /\ n \notin DOMAIN reply.locals.finalData.o
           /\ \A n \in DOMAIN DataFields \ moved :
                Get(reply.locals.finalData, n) = DataFields[n]

\* the placeholder names given neither in data nor in pathVariables
AbsentNames ==
    {n \in PlaceholderNames(call.action.path) :
        n \notin DOMAIN DataFields /\ n \notin DOMAIN ExplicitFields}

\* C8: when placeholder names are given neither in data nor in pathVariables,
\* the call fails without a descriptor, and (the connection being known) with
\* the one missing-path-variables error, which lists every one of them.
C8_AllMissingListed ==
    (GenerateDone /\ AbsentNames # {})
    => /\ ~reply.envelope.success
       /\ "requestConfig" \notin DOMAIN reply.envelope
       /\ ConnectionKnown => (MissingReported /\ AbsentNames \subseteq ReportedNames)

\* two placeholders without a value anywhere, both listed
C8_Witness ==
    /\ GenerateDone
    /\ ConnectionKnown
    /\ AbsentNames = {NameA, NameB}
    /\ MissingReported
    /\ ReportedNames = {NameA, NameB}

\* C9: when a placeholder name is given both in data and in pathVariables, the
\* call resolves the path with the value of pathVariables, whatever the two
\* values are.
C9_ExplicitValueWins ==
    (GenerateDone /\ ConnectionKnown
        /\ (PlaceholderNames(call.action.path) \cap DOMAIN DataFields
                \cap DOMAIN ExplicitFields) # {}
        /\ MissingNames(call.action.path, Lookup) = {})
    => /\ reply.envelope.success
       /\ reply.locals.resolvedPath = SubstitutedFrom(call.action.path, 1, Lookup)

\* the same for the calls that yield a descriptor
ExplicitValueWinsOnSuccess ==
    (GenerateDone /\ reply.envelope.success
        /\ (PlaceholderNames(call.action.path) \cap DOMAIN DataFields
                \cap DOMAIN ExplicitFields) # {})
    => reply.locals.resolvedPath = SubstitutedFrom(call.action.path, 1, Lookup)

\* C10: when data is absent, an array or a scalar, nothing is promoted: the
\* payload handed to the encoder is data itself and the path variables are
\* those of the caller.
C10_NonObjectDataUntouched ==
    (GenerateDone /\ call.data.t # "object" /\ reply.locals # <<>>)
    => /\ reply.locals.finalData = call.data
       /\ reply.locals.finalPathVariables = Obj(ExplicitFields)

\* the same for absent data and arrays
AbsentAndArrayDataUntouched ==
    (GenerateDone /\ call.data.t \in {"undefined", "array"} /\ reply.locals # <<>>)
    => /\ reply.locals.finalData = call.data
       /\ reply.locals.finalPathVariables = Obj(ExplicitFields)

---------------------------------------------------------------------------
(* C11: the body and the method *)

\* the spellings of get
IsGet(method) == method \in {"GET", "Get", "get"}

\* the body of a request descriptor, undefined when it has no data property
Body(requestConfig) ==
    IF "data" \in DOMAIN requestConfig THEN requestConfig.data ELSE Undefined

\* a value that puts nothing on the wire: undefined, null, the empty string
NoPayload(v) == v.t \in {"undefined", "null"} \/ v = Str(<<>>)

\* the wire representation of data in the mode the flags select
Encoded(data, isFormData, isFormUrlEncoded) ==
    IF isFormData THEN [t |-> "FormData", fields |-> FormFields(data)]
    ELSE IF isFormUrlEncoded THEN [t |-> "URLSearchParams", fields |-> FormFields(data)]
    ELSE data

\* a descriptor that obeys the rule for the method and the payload it was built from
BodyFollowsMethod(requestConfig, method, data, isFormData, isFormUrlEncoded) ==
    IF IsGet(method)
    THEN "data" \notin DOMAIN requestConfig
    ELSE LET want == Encoded(data, isFormData, isFormUrlEncoded)
         IN  \/ Body(requestConfig) = want
             \/ NoPayload(want) /\ NoPayload(Body(requestConfig))

\* the rule on the descriptors of execute_action and generate_action_config_knowledge
BodyFollowsMethod_tools ==
    /\ (ExecuteDone /\ wire # <<>>)
        => BodyFollowsMethod(wire[1], call.method, call.data, call.isFormData,
                             call.isFormUrlEncoded)
    /\ (GenerateDone /\ reply.envelope.success)
        => BodyFollowsMethod(reply.envelope.requestConfig, call.method,
                             reply.locals.finalData, call.isFormData,
                             call.isFormUrlEncoded)

\* C11: a descriptor built for a method that spells get in any letter case has
\* no body whatever data and flags are; for every other method the encoded data
\* is its body.  Stated for the tools and for the HTTP server.
C11_BodyOnlyForNonGet ==
    /\ BodyFollowsMethod_tools
    /\ (HttpExecuteDone /\ wire # <<>>)
        => BodyFollowsMethod(wire[1], call.method, call.data, FALSE, FALSE)

\* the get half alone, on every descriptor of the three servers
GetNeverHasBody ==
    ((ExecuteDone \/ HttpExecuteDone) /\ wire # <<>> /\ IsGet(call.method)
        => "data" \notin DOMAIN wire[1])
    /\ (GenerateDone /\ reply.envelope.success /\ IsGet(call.method)
        => "data" \notin DOMAIN reply.envelope.requestConfig)

---------------------------------------------------------------------------
(* C12: the headers every descriptor has *)

\* a state in which a tool built a descriptor: the request execute_action sent,
\* or the requestConfig generate_action_config_knowledge returned
HasDescriptor ==
    (ExecuteDone /\ wire # <<>>) \/ (GenerateDone /\ reply.envelope.success)

Descriptor == IF ExecuteDone THEN wire[1] ELSE reply.envelope.requestConfig

\* the action id the call passes to the client
CallActionId == IF ExecuteDone THEN call.actionId ELSE call.action.id

\* C12: every descriptor has the keys x-pica-connection-key, x-pica-action-id,
\* x-pica-secret and Content-Type, whatever the caller's headers and the flags
\* are; a key the caller's headers do not name carries the connectionKey
\* argument, the actionId argument and the configured secret respectively.
C12_RoutingAndAuthHeaders ==
    HasDescriptor
    => LET h == Descriptor.headers
       IN  /\ {"x-pica-connection-key", "x-pica-action-id", "x-pica-secret",
               "Content-Type"} \subseteq DOMAIN h
           /\ "x-pica-connection-key" \notin DOMAIN call.headers
                => h["x-pica-connection-key"] = call.connectionKey
           /\ "x-pica-action-id" \notin DOMAIN call.headers
                => h["x-pica-action-id"] = CallActionId
           /\ "x-pica-secret" \notin DOMAIN call.headers
                => h["x-pica-secret"] = PICA_SECRET

\* a multipart request went out whose caller named a header of their own
C12_Witness ==
    /\ ExecuteDone /\ wire # <<>>
    /\ call.headers # <<>> /\ "x-pica-connection-key" \notin DOMAIN call.headers
    /\ call.isFormData /\ ~IsGet(call.method)

---------------------------------------------------------------------------
(* C13: the caller's headers *)

\* C13: for every header key the caller supplies, the descriptor carries the
\* caller's value for that key, in JSON, multipart and URL-encoded mode alike,
\* content-type and the routing headers included.
C13_CallerHeadersWin ==
    HasDescriptor
    => \A k \in DOMAIN call.headers : Descriptor.headers[k] = call.headers[k]

\* the same for every key but the content-type key that the multipart form
\* writes into the headers of a request with a body
CallerHeadersWinButFormType ==
    HasDescriptor
    => \A k \in DOMAIN call.headers :
          (k \in DOMAIN FormDataHeaders /\ call.isFormData /\ ~IsGet(call.method))
          \/ Descriptor.headers[k] = call.headers[k]

---------------------------------------------------------------------------
(* C14: one encoding mode per descriptor *)

ContentTypeKeys == {"Content-Type", "content-type"}

\* the mode a body is encoded in
ModeOfBody(body) ==
    CASE body.t = "FormData" -> "multipart"
      [] body.t = "URLSearchParams" -> "urlencoded"
      [] OTHER -> "json"

\* the mode a content-type value announces
ModeOfContentType(value) ==
    CASE value = "application/json" -> "json"
      [] value \in {"multipart/form-data", "multipart/form-data; boundary=<boundary>"}
           -> "multipart"
      [] value = "application/x-www-form-urlencoded" -> "urlencoded"
      [] OTHER -> "other"

\* a descriptor with a body whose content type is all the engine's
EncodedByFlags ==
    /\ HasDescriptor
    /\ ~IsGet(call.method)
    /\ DOMAIN call.headers \cap ContentTypeKeys = {}

\* every content-type header of the descriptor announces the mode of its body
OneMode ==
    \A k \in DOMAIN Descriptor.headers \cap ContentTypeKeys :
        ModeOfContentType(Descriptor.headers[k]) = ModeOfBody(Body(Descriptor))

\* C14: for a request with a body and no content-type header from the caller,
\* the body and every content-type header name the same single mode: JSON when
\* neither flag is set, multipart when isFormData is set, URL-encoded when
\* isFormUrlEncoded is set; no combination of the flags, both set included,
\* encodes the body in one mode and announces another.
C14_OneEncodingMode ==
    EncodedByFlags
    => /\ OneMode
       /\ (~call.isFormData /\ ~call.isFormUrlEncoded)
            => ModeOfBody(Body(Descriptor)) = "json"
       /\ (call.isFormData /\ ~call.isFormUrlEncoded)
            => ModeOfBody(Body(Descriptor)) = "multipart"
       /\ (~call.isFormData /\ call.isFormUrlEncoded)
            => ModeOfBody(Body(Descriptor)) = "urlencoded"

\* the same for the calls that set at most one flag
OneEncodingModeForOneFlag ==
    (EncodedByFlags /\ ~(call.isFormData /\ call.isFormUrlEncoded))
    => /\ OneMode
       /\ ModeOfBody(Body(Descriptor)) =
            (IF call.isFormData THEN "multipart"
             ELSE IF call.isFormUrlEncoded THEN "urlencoded" ELSE "json")

---------------------------------------------------------------------------
(* C15: the url *)

\* s without its leading slashes
RECURSIVE StripLeadingSlashes(_)
StripLeadingSlashes(s) ==
    IF s # <<>> /\ Head(s) = "/" THEN StripLeadingSlashes(Tail(s)) ELSE s

\* the path a descriptor's url was built from
ResolvedPath ==
    IF GenerateDone THEN reply.locals.resolvedPath
    ELSE IF Truthy(call.pathVariables)
         THEN replacePathVariables(call.path, call.pathVariables).s
         ELSE call.path

\* C15: the url is baseUrl, "/v1/passthrough", one slash, and the resolved path
\* without its leading slashes, be there none, one or several.
C15_OneSlashAfterPassthrough ==
    HasDescriptor
    => /\ Descriptor.url.origin = baseUrl
       /\ Descriptor.url.path =
            PassthroughPath \o <<"/">> \o StripLeadingSlashes(ResolvedPath)

\* the same for the resolved paths with at most one leading slash
OneSlashForAtMostOne ==
    (HasDescriptor /\ (Len(ResolvedPath) < 2 \/ SubSeq(ResolvedPath, 1, 2) # <<"/", "/">>))
    => /\ Descriptor.url.origin = baseUrl
       /\ Descriptor.url.path =
            PassthroughPath \o <<"/">> \o StripLeadingSlashes(ResolvedPath)

---------------------------------------------------------------------------
(* C16: the connection check of generate_action_config_knowledge *)

\* the keys of the connections the client holds
KnownKeys == {connections[i].key : i \in 1..Len(connections)}

\* the call ended in the connection-not-found error
ConnectionNotFoundReported ==
    /\ ~reply.envelope.success
    /\ reply.envelope.message.kind = "ConnectionNotFound"

\* C16: the call fails with a connection-not-found error that names the
\* platform, before anything is resolved or assembled, exactly when
\* connectionKey is the key of no connection of the client's list; an inactive
\* connection passes.
C16_UnknownConnectionFails ==
    GenerateDone
    => /\ ConnectionNotFoundReported <=> call.connectionKey \notin KnownKeys
       /\ ConnectionNotFoundReported
            => /\ reply.envelope.message.platform = call.platform
               /\ reply.locals = <<>>

\* an unknown key was refused on a call whose path variables are missing too,
\* for the platform slack
C16_Witness ==
    /\ GenerateDone
    /\ call.connectionKey \notin KnownKeys
    /\ call.platform = "slack"
    /\ MatchAll(call.action.path) # <<>>
    /\ call.pathVariables = Undefined
    /\ ConnectionNotFoundReported

\* the inactive connection was accepted
InactiveConnectionPasses ==
    (GenerateDone /\ call.connectionKey = "conn-2") => ~ConnectionNotFoundReported

---------------------------------------------------------------------------
(* C17: the connection and execute_action *)

\* C17: execute_action sends a passthrough request only for a connectionKey
\* that is the key of a connection the client knows; for an unknown key the
\* call returns a failure envelope and nothing is sent.
C17_NoRequestForUnknownConnection ==
    (ExecuteDone /\ call.connectionKey \notin KnownKeys)
    => /\ wire = <<>>
       /\ ~reply.envelope.success

---------------------------------------------------------------------------
(* C18: the error of a failed passthrough request *)

\* part occurs in text
Contains(text, part) ==
    \E i \in 0..(Len(text) - Len(part)) : SubSeq(text, i + 1, i + Len(part)) = part

\* the message axios gives the error, by the answer
LocalMessage ==
    CASE reply.upstream.kind = "http" /\ reply.upstream.status = 404 -> <<"R", "e", "q", "u", "e", "s", "t", " ", "f", "a", "i", "l", "e", "d", " ", "w", "i", "t", "h", " ", "s", "t", "a", "t", "u", "s", " ", "c", "o", "d", "e", " ", "4", "0", "4">>
      [] reply.upstream.kind = "http" /\ reply.upstream.status = 500 -> <<"R", "e", "q", "u", "e", "s", "t", " ", "f", "a", "i", "l", "e", "d", " ", "w", "i", "t", "h", " ", "s", "t", "a", "t", "u", "s", " ", "c", "o", "d", "e", " ", "5", "0", "0">>
      [] OTHER -> <<"N", "e", "t", "w", "o", "r", "k", " ", "E", "r", "r", "o", "r">>

\* the JSON text of the body upstream answered with
SerialisedBody ==
    IF reply.upstream.status = 404
    THEN <<"{", "\"", "e", "r", "r", "o", "r", "\"", ":", "\"", "n", "o", "t", " ", "f", "o", "u", "n", "d", "\"", "}">>
    ELSE <<"\"", "d", "o", "w", "n", "\"">>

\* C18: when the passthrough request fails with an upstream response, the tool
\* returns {success: false, error} and error contains the local message and the
\* JSON text of the upstream body; when there is no response, error is the
\* local message alone.
C18_UpstreamBodyInError ==
    (ExecuteDone /\ reply.upstream.kind \in {"http", "network"})
    => /\ DOMAIN reply.envelope = {"success", "error"}
       /\ ~reply.envelope.success
       /\ reply.upstream.kind = "http"
            => /\ Contains(reply.envelope.error, LocalMessage)
               /\ Contains(reply.envelope.error, SerialisedBody)
       /\ reply.upstream.kind = "network"
            => reply.envelope.error = LocalMessage

\* a request was answered 404 with a JSON body
C18_Witness ==
    /\ ExecuteDone
    /\ reply.upstream.kind = "http" /\ reply.upstream.status = 404
    /\ reply.upstream.data = NotFoundBody
    /\ ~reply.envelope.success

---------------------------------------------------------------------------
(* C19: errors at the dispatcher boundary *)

\* C19: whatever goes wrong while a tool call is served (initialisation,
\* missing arguments, an unknown tool name, a catalog or passthrough failure),
\* the handler returns an envelope; no call ends with an exception leaving the
\* handler.
C19_NoExceptionEscapes ==
    DispatchDone => reply.outcome = "returned"

\* the same for the failures raised inside the tools' try blocks: a call to one
\* of the server's tools, with arguments, on an initialised client
FailuresInsideTryAreReturned ==
    (DispatchDone /\ call.secretSet /\ call.hasArguments
        /\ (call.server = "route" \/ call.name \in ToolNames \ {"generate_action_config_knowledge"}))
    => reply.outcome = "returned"

---------------------------------------------------------------------------
(* C20: the shape of a failure envelope *)

\* a tool returned an envelope that reports a failure
ToolFailed ==
    /\ \/ GenerateDone
       \/ ExecuteDone
       \/ DispatchDone /\ reply.outcome = "returned"
    /\ ~reply.envelope.success

\* the envelope is {success: false, error: <string>}
ErrorShape(envelope) ==
    /\ DOMAIN envelope = {"success", "error"}
    /\ envelope.error = SubSeq(envelope.error, 1, Len(envelope.error))

\* C20: every failing call of each of the five tools returns an envelope of
\* the shape {success: false, error: <string>}; the reason is in the field
\* named error.
C20_FailureEnvelopeShape ==
    ToolFailed => ErrorShape(reply.envelope)

\* the same for the tools other than generate_action_config_knowledge
FailureEnvelopeShapeButGenerate ==
    (ToolFailed /\ ~GenerateDone
        /\ (DispatchDone => call.name # "generate_action_config_knowledge"))
    => ErrorShape(reply.envelope)

---------------------------------------------------------------------------
(* C22: one request per execute_action call *)

\* the request went out and upstream did not answer it with a success
UpstreamFailed == reply.upstream # NotAsked /\ reply.upstream.kind # "ok"

\* C22: an execute_action call issues at most one request to the passthrough
\* endpoint; when upstream fails the call ends in a failure envelope with that
\* one request sent and no second attempt.
C22_AtMostOneRequest ==
    ExecuteDone
    => /\ Len(wire) <= 1
       /\ UpstreamFailed => (~reply.envelope.success /\ Len(wire) = 1)

\* a call whose one request got no response at all, reported as a failure
C22_Witness ==
    /\ ExecuteDone
    /\ reply.upstream # NotAsked
    /\ reply.upstream.kind = "network"
    /\ Len(wire) = 1
    /\ ~reply.envelope.success

---------------------------------------------------------------------------
(* C23: generate_action_config_knowledge sends nothing *)

---------------------------------------------------------------------------
(* C28: the partitioner's check against the resolver *)

\* the resolver accepts the combined lookup of the call for its template
ResolverAccepts == replacePathVariables(call.action.path, Lookup).ok

\* C28: whenever replacePathVariables succeeds on the template with the
\* combined variables of a generate call, the handler's missing-variable check
\* lets the call through: it reports no name as missing.
C28_PartitionerAgreesWithResolver ==
    (GenerateDone /\ ConnectionKnown /\ ResolverAccepts) => ~MissingReported

\* the template has a placeholder written with blanks around the name
HasSpacedPlaceholder(path) ==
    \E i \in 1..Len(MatchAll(path)) :
        LET inner == SubSeq(MatchAll(path)[i], 3, Len(MatchAll(path)[i]) - 2)
        IN  Trim(inner) # inner

\* some placeholder of the template has a value that is given and falsy
HasFalsyValue(path) ==
    \E n \in PlaceholderNames(path) :
        ~IsMissing(Lookup, n) /\ ~Truthy(Get(Lookup, n))

\* the part of C28 the handler keeps: templates whose placeholders are written
\* without blanks, with values that are truthy
AgreesOnPlainTruthy ==
    (GenerateDone /\ ConnectionKnown /\ ResolverAccepts
        /\ ~HasSpacedPlaceholder(call.action.path)
        /\ ~HasFalsyValue(call.action.path))
    => ~MissingReported

\* the handler reports a name as missing only because of the blanks around it
SpacedNameReportedMissing ==
    ~(/\ GenerateDone /\ ConnectionKnown /\ ResolverAccepts
      /\ ~HasFalsyValue(call.action.path)
      /\ MissingReported)

---------------------------------------------------------------------------
(* C29: the caller's arguments after generate_action_config_knowledge *)

\* C29: after a generate call, successful or not, the data object and the
\* pathVariables map the caller passed have the fields and values they had
\* before the call.
C29_ArgumentsUnchanged ==
    GenerateDone
    => /\ reply.arguments.data = call.data
       /\ reply.arguments.pathVariables = call.pathVariables

\* the data half of C29, which the copy of line 634 keeps
DataLeftAsPassed ==
    GenerateDone => reply.arguments.data = call.data

\* the pathVariables map is as passed whenever no field of data was moved
PathVariablesLeftWhenNothingMoved ==
    (GenerateDone /\ MovedNames = {})
    => reply.arguments.pathVariables = call.pathVariables

\* a call that moved a field of data, with both objects held as passed
MovedWithArgumentsKept ==
    ~(/\ GenerateDone /\ ConnectionKnown /\ reply.envelope.success
      /\ MovedNames # {}
      /\ call.pathVariables = Undefined
      /\ reply.arguments.data = call.data)

---------------------------------------------------------------------------
(* C24: get_action_knowledge for an action the catalog does not have *)

\* the catalog answered the lookup, with empty rows or with none
AnsweredWithoutRows ==
    /\ call.answer.kind = "ok"
    /\ ~call.answer.hasRows \/ call.answer.rows = <<>>

\* C24: when the catalog answers the lookup with empty or missing rows,
\* get_action_knowledge returns a failure envelope whose error is the
\* not-found error for the action id of the call.
C24_EmptyRowsReportNotFound ==
    (KnowledgeDone /\ reply.asked /\ AnsweredWithoutRows)
    => /\ ~reply.envelope.success
       /\ reply.envelope.error = ActionNotFound(call.actionId)

\* the part of C24 the handler keeps: such a lookup never succeeds
EmptyRowsNeverSucceed ==
    (KnowledgeDone /\ reply.asked /\ AnsweredWithoutRows) => ~reply.envelope.success

\* the error of such a lookup never names the action id
NotFoundIsMasked ==
    (KnowledgeDone /\ reply.asked /\ AnsweredWithoutRows)
    => reply.envelope.error = FailedToFetchActionKnowledge

---------------------------------------------------------------------------
(* C21: initialisation when the catalog cannot be reached *)

\* no fetch of the connections has brought rows so far
NoConnectionsFetched == \A k \in 1..Len(fetched) : fetched[k].kind # "ok"

\* no fetch of the connection definitions has brought rows so far
NoDefinitionsFetched == \A i \in 1..Len(runs) : runs[i].definitions # "ok"

\* C21: whatever the fetches of initialize() were answered with, the run ends
\* resolved and marks the client initialised; a list none of whose fetches
\* succeeded is empty; and every tool call that has ended was served, none
\* refused.
C21_InitialisationSurvivesFailedFetches ==
    /\ \A i \in 1..Len(runs) :
        /\ runs[i].settled # "rejected"
        /\ SettleOf(runs[i]) # "no" => (runs[i].settled = "resolved" /\ picaInitialized)
    /\ NoConnectionsFetched => connections = <<>>
    /\ NoDefinitionsFetched => connectionDefinitions = <<>>
    /\ \A r \in Requests : requests[r].pc = "done" => requests[r].outcome = "served"

\* on route.ts both fetches of the run failed, the client is initialised with
\* empty lists, and an execute_action call that waited for the run was served
C21_Witness ==
    /\ variant = "route"
    /\ Len(runs) = 1
    /\ runs[1].connections = "failed"
    /\ runs[1].definitions = "failed"
    /\ picaInitialized
    /\ connections = <<>>
    /\ connectionDefinitions = <<>>
    /\ \E r \in Requests :
        /\ requests[r].tool = "execute_action"
        /\ requests[r].awaits = 1
        /\ requests[r].outcome = "served"

---------------------------------------------------------------------------
(* C26: initialize() runs once *)

\* the runs of initialize() whose fetches are in flight
RunsInFlight == {i \in 1..Len(runs) : runs[i].settled = "no"}

\* C26: in every variant initialize() is started at most once, so at most one
\* set of fetches is in flight; a request that waits does so for a run that
\* has not ended, and a request goes on only when the client is initialised.
C26_InitialisedOnce ==
    /\ Len(runs) <= 1
    /\ Cardinality(RunsInFlight) <= 1
    /\ \A r \in Requests :
        /\ requests[r].pc = "waiting" => requests[r].awaits \in RunsInFlight
        /\ requests[r].pc \in {"refreshing", "done"} => picaInitialized

\* the same for the three variants that keep the promise of the run
InitialisedOnceWithPromise ==
    KeepsPromise(variant)
    => /\ Len(runs) <= 1
       /\ \A r \in Requests :
           /\ requests[r].pc = "waiting" => requests[r].awaits \in RunsInFlight
           /\ requests[r].pc \in {"refreshing", "done"} => picaInitialized

\* in every variant, a request waits for a run in flight and goes on only when
\* the client is initialised
RequestsWaitForInitialisation ==
    \A r \in Requests :
        /\ requests[r].pc = "waiting" => requests[r].awaits \in RunsInFlight
        /\ requests[r].pc \in {"refreshing", "done"} => picaInitialized

\* in every variant, no run starts once the client is initialised
NeverRunAgain == [][picaInitialized => Len(runs') = Len(runs)]_vars

\* src/index.ts with two runs of initialize() in flight
IndexRunsOnce == ~(variant = "index" /\ Cardinality(RunsInFlight) = 2)

---------------------------------------------------------------------------
(* C27: the cache after refreshes that fail *)

IsListCall(r) == requests[r].tool = "list_user_connections_and_available_connectors"

\* C27: after any sequence of answered fetches the cache holds the rows of
\* the latest successful one, or nothing if none succeeded; a
\* refreshConnections call returns the list the cache held when it ended, and
\* does not throw.
C27_CacheIsLastGoodFetch ==
    /\ connections = LastGoodRows(fetched)
    /\ \A r \in Requests :
        (requests[r].pc = "done" /\ IsListCall(r))
        => /\ requests[r].outcome = "served"
           /\ requests[r].returned = requests[r].lastGood

\* a refresh that failed after a fetch had brought RowsA returned RowsA
C27_Witness ==
    \E r \in Requests :
        /\ requests[r].pc = "done"
        /\ IsListCall(r)
        /\ requests[r].answer = "network"
        /\ requests[r].returned = RowsA
        /\ connections = RowsA

---------------------------------------------------------------------------
(* C25: dispatches that overlap *)

\* the envelope the call of dispatch p gets when it is served alone
EnvelopeAlone(p) ==
    IF dispatches[p].call.op = "execute_action"
    THEN ExecuteOutcome(dispatches[p].call, dispatches[p].upstream).envelope
    ELSE GenerateOutcome(InitialConnections, dispatches[p].call).envelope

---------------------------------------------------------------------------
(* C30: the transports map of the SSE server *)

\* C30: the transports map holds exactly the sessions whose connection was
\* opened and has not closed; a POST /messages without sessionId is answered
\* 400, one for a session that is not open 404, and a message is handed only
\* to the transport of its own sessionId, which is open.
C30_TransportsAreOpenSessions ==
    /\ transports = OpenSessions
    /\ posted.status # 0
         => /\ posted.sessionId = NoSessionId => posted.status = 400
            /\ (posted.sessionId # NoSessionId /\ posted.sessionId \notin posted.openThen)
                 => posted.status = 404
            /\ posted.status \in {400, 404} => posted.handedTo = NoSessionId
            /\ posted.handedTo # NoSessionId
                 => /\ posted.handedTo = posted.sessionId
                    /\ posted.sessionId \in posted.openThen

\* a POST for a session that had closed was answered 404 while another
\* session was open
C30_Witness ==
    /\ posted.status = 404
    /\ posted.sessionId # NoSessionId
    /\ sockets[posted.sessionId] = "closed"
    /\ posted.sessionId \notin posted.openThen
    /\ posted.openThen # {}
    /\ transports # {}
====
